---- MODULE Spec2Model ----
(***************************************************************************)
(* A model of openapi-ts-client: the identifier registry and ref table of  *)
(* src/utils.js, the schema compiler and endpoint assembler of             *)
(* src/generate.js and the default endpoint generator of src/client.js.    *)
(*                                                                         *)
(* A JavaScript string is modelled as a sequence of chunks (each chunk a   *)
(* TLA+ string); string concatenation is sequence concatenation.  Names    *)
(* that are case-converted are written one character per chunk.            *)
(* An optional value is a sequence of length 0 (undefined) or 1.           *)
(***************************************************************************)
EXTENDS Integers, Sequences, FiniteSets, TLC

None == <<>>

Some(x) == <<x>>

Has(o) == Len(o) > 0

(***************************************************************************)
(* Characters and case conversion                                          *)
(***************************************************************************)
LowerSeq ==
  <<"a", "b", "c", "d", "e", "f", "g", "h", "i", "j", "k", "l", "m",
    "n", "o", "p", "q", "r", "s", "t", "u", "v", "w", "x", "y", "z">>

UpperSeq ==
  <<"A", "B", "C", "D", "E", "F", "G", "H", "I", "J", "K", "L", "M",
    "N", "O", "P", "Q", "R", "S", "T", "U", "V", "W", "X", "Y", "Z">>

LowerChars == {LowerSeq[i] : i \in 1..Len(LowerSeq)}

UpperChars == {UpperSeq[i] : i \in 1..Len(UpperSeq)}

UpperOf == [c \in LowerChars |-> UpperSeq[CHOOSE i \in 1..Len(LowerSeq) : LowerSeq[i] = c]]

LowerOf == [c \in UpperChars |-> LowerSeq[CHOOSE i \in 1..Len(UpperSeq) : UpperSeq[i] = c]]

IsLower(c) == c \in LowerChars

IsUpper(c) == c \in UpperChars

IsLetter(c) == IsLower(c) \/ IsUpper(c)

toUpperCase(c) == IF IsLower(c) THEN UpperOf[c] ELSE c

toLowerCase(c) == IF IsUpper(c) THEN LowerOf[c] ELSE c

\* A word starts at position i of string s: after a separator, at an upper
\* case letter that follows a lower case letter, and at the last upper case
\* letter of an upper case run that is followed by a lower case letter.
WordStart(s, i) ==
  /\ IsLetter(s[i])
  /\ \/ i = 1
     \/ ~IsLetter(s[i - 1])
     \/ IsUpper(s[i]) /\ IsLower(s[i - 1])
     \/ IsUpper(s[i]) /\ IsUpper(s[i - 1]) /\ i < Len(s) /\ IsLower(s[i + 1])

RECURSIVE camelCaseFrom(_, _, _)
camelCaseFrom(s, i, first) ==
  IF i > Len(s) THEN <<>>
  ELSE IF ~IsLetter(s[i]) THEN camelCaseFrom(s, i + 1, first)
  ELSE IF WordStart(s, i)
    THEN <<IF first THEN toLowerCase(s[i]) ELSE toUpperCase(s[i])>>
           \o camelCaseFrom(s, i + 1, FALSE)
    ELSE <<toLowerCase(s[i])>> \o camelCaseFrom(s, i + 1, FALSE)

\* lodash.camelcase: split into words, lower-case each, capitalise all but
\* the first, join.
camelCase(string) == camelCaseFrom(string, 1, TRUE)

capitalize(string) ==
  IF string = <<>> THEN string
  ELSE <<toUpperCase(string[1])>> \o SubSeq(string, 2, Len(string))

toPascalCase(string) ==
  IF string = <<>> THEN string ELSE capitalize(camelCase(string))

createTypeIdentifier(string, suffix) == toPascalCase(string \o suffix)

createOperationName(string) == camelCase(string)

NoSuffix == <<>>

RequestBodySuffix == <<"R", "e", "q", "u", "e", "s", "t", "B", "o", "d", "y">>

(***************************************************************************)
(* String literals of the source that take part in case conversion         *)
(***************************************************************************)
GET == <<"g", "e", "t">>

DELETE == <<"d", "e", "l", "e", "t", "e">>

PATCH == <<"p", "a", "t", "c", "h">>

POST == <<"p", "o", "s", "t">>

PUT == <<"p", "u", "t">>

HTTP_METHODS == {GET, DELETE, PATCH, POST, PUT}

PathLoc == <<"p", "a", "t", "h">>

QueryLoc == <<"q", "u", "e", "r", "y">>

HeaderLoc == <<"h", "e", "a", "d", "e", "r">>

CookieLoc == <<"c", "o", "o", "k", "i", "e">>

ParametersSuffix == <<"P", "a", "r", "a", "m", "e", "t", "e", "r", "s">>

ResponseName == <<"R", "e", "s", "p", "o", "n", "s", "e">>

PathParametersName == <<"P", "a", "t", "h", "P", "a", "r", "a", "m", "e", "t", "e", "r", "s">>

QueryParametersName == <<"Q", "u", "e", "r", "y", "P", "a", "r", "a", "m", "e", "t", "e", "r", "s">>

RequestBodyName == <<"R", "e", "q", "u", "e", "s", "t", "B", "o", "d", "y">>

SuccessName == <<"S", "u", "c", "c", "e", "s", "s">>

ErrorName == <<"E", "r", "r", "o", "r">>

DefaultStatus == <<"d", "e", "f", "a", "u", "l", "t">>

(***************************************************************************)
(* Identifier registry and ref table (src/utils.js)                        *)
(***************************************************************************)
\* createTypeName without the has() test: a name is issued again.
createTypeName_Unchecked(string, suffix, created) ==
  [err |-> "", typeName |-> createTypeIdentifier(string, suffix),
   created |-> created \cup {createTypeIdentifier(string, suffix)}]

\* createTypeName(string, suffix) against the registry `created`:
\* the identifier, the registry afterwards, and the error thrown ("" if none).
createTypeName(string, suffix, created) ==
  LET typeName == createTypeIdentifier(string, suffix) IN
  IF typeName \in created
    THEN [err |-> "DuplicateTypeName", typeName |-> typeName, created |-> created]
    ELSE [err |-> "", typeName |-> typeName, created |-> created \cup {typeName}]

ComponentKeys == <<"schemas", "parameters", "requestBodies", "responses">>

RefPath(key, refName) == <<"#/components/", key, "/">> \o refName

\* Map.set: the entry of `key` is written or overwritten.
MapSet(map, key, value) ==
  [k \in DOMAIN map \cup {key} |-> IF k = key THEN value ELSE map[k]]

RECURSIVE SetRefs(_, _, _, _)
SetRefs(map, key, entries, i) ==
  IF i > Len(entries) THEN map
  ELSE SetRefs(MapSet(map, RefPath(key, entries[i].name),
                      createTypeIdentifier(entries[i].name, NoSuffix)),
               key, entries, i + 1)

ComponentEntries(components, key) ==
  CASE key = "schemas" -> components.schemas
    [] key = "parameters" -> components.parameters
    [] key = "requestBodies" -> components.requestBodies
    [] key = "responses" -> components.responses

RECURSIVE BuildRefsFrom(_, _, _)
BuildRefsFrom(map, components, k) ==
  IF k > Len(ComponentKeys) THEN map
  ELSE LET entries == ComponentEntries(components, ComponentKeys[k]) IN
       BuildRefsFrom(
         IF Has(entries) THEN SetRefs(map, ComponentKeys[k], entries[1], 1) ELSE map,
         components, k + 1)

\* The table as it would stand had only the first schema been entered.
buildRefMap_FirstSchemaOnly(openApiDocument, map) ==
  IF ~Has(openApiDocument.components) \/ ~Has(openApiDocument.components[1].schemas)
    THEN map
    ELSE SetRefs(map, "schemas", SubSeq(openApiDocument.components[1].schemas[1], 1, 1), 1)

\* buildRefMap({ openApiDocument }) on the module-level refMap `map`.
buildRefMap(openApiDocument, map) ==
  IF ~Has(openApiDocument.components) THEN map
  ELSE BuildRefsFrom(map, openApiDocument.components[1], 1)

\* Boolean(schemaOrRef.$ref): an empty string is falsy.
isRef(schemaOrRef) == Has(schemaOrRef.ref) /\ schemaOrRef.ref[1] # <<>>

getTypeNameFromRef(schema, map) ==
  IF schema.ref[1] \notin DOMAIN map
    THEN [err |-> "UnknownRef", ty |-> <<>>, warns |-> <<>>]
    ELSE [err |-> "", ty |-> map[schema.ref[1]], warns |-> <<>>]

(***************************************************************************)
(* Schema compiler (src/generate.js)                                       *)
(*                                                                         *)
(* A compilation returns the type expression `ty`, the error thrown `err`  *)
(* ("" when it returns normally) and `warns`, the keys warn() was called   *)
(* with, in call order, up to the return or throw.                         *)
(***************************************************************************)
\* The schema object with no keys, {}.  A keyword that is absent is None,
\* FALSE or "absent"; deprecated, default, readOnly, writeOnly and xml record
\* whether the value present is truthy or falsy.
EmptySchema ==
  [ref |-> None, allOf |-> None, anyOf |-> None, oneOf |-> None, not |-> FALSE,
   discriminator |-> FALSE, deprecated |-> "absent", default |-> "absent",
   readOnly |-> "absent", writeOnly |-> "absent", xml |-> "absent",
   type |-> "undefined", format |-> None, enum |-> None, nullable |-> FALSE,
   items |-> None, properties |-> None, required |-> {},
   additionalProperties |-> None]

Ok(ty, warns) == [err |-> "", ty |-> ty, warns |-> warns]

Fail(err, warns) == [err |-> err, ty |-> <<>>, warns |-> warns]

\* Array.prototype.join on strings.
RECURSIVE Join(_, _)
Join(strings, sep) ==
  IF Len(strings) = 0 THEN <<>>
  ELSE IF Len(strings) = 1 THEN strings[1]
  ELSE strings[1] \o <<sep>> \o Join(Tail(strings), sep)

createTypeUnion(types) == Join(types, " | ")

createNullableType(type) == createTypeUnion(<<type, <<"null">>>>)

Nullable(schema, type) == IF schema.nullable THEN createNullableType(type) ELSE type

Wrap(values) == [i \in 1..Len(values) |-> <<"\"">> \o values[i] \o <<"\"">>]

createEnumType(schema) ==
  CASE schema.type \in {"boolean", "integer", "number"} ->
         Ok(createTypeUnion(IF schema.nullable
                              THEN Append(schema.enum[1], <<"null">>)
                              ELSE schema.enum[1]), <<>>)
    [] schema.type = "string" ->
         Ok(createTypeUnion(IF schema.nullable
                              THEN Append(Wrap(schema.enum[1]), <<"null">>)
                              ELSE Wrap(schema.enum[1])), <<>>)
    [] OTHER -> Fail("UnknownEnumType", <<>>)

Formatted(schema, base) ==
  IF Has(schema.format) /\ schema.format[1] # ""
    THEN <<base, " /* ", schema.format[1], " */">>
    ELSE <<base>>

createScalarType(schema) ==
  IF Has(schema.enum) THEN createEnumType(schema)
  ELSE CASE schema.type = "boolean" -> Ok(Nullable(schema, <<"boolean">>), <<>>)
         [] schema.type = "integer" -> Ok(Nullable(schema, Formatted(schema, "number")), <<>>)
         [] schema.type = "number" -> Ok(Nullable(schema, Formatted(schema, "number")), <<>>)
         [] schema.type = "string" -> Ok(Nullable(schema, Formatted(schema, "string")), <<>>)
         [] OTHER -> Fail("UnknownScalarType", <<>>)

\* warn(key) is called iff the keyword's value is truthy.
WarnIf(value, key) == IF value = "truthy" THEN <<key>> ELSE <<>>

Nothing == [err |-> "", tys |-> <<>>, warns |-> <<>>]

\* One more element of an array being mapped: `head` is the element's
\* result and `tail` the result of the elements after it, which are not
\* reached when `head` throws.
Cons(head, tail) ==
  IF head.err # "" THEN [err |-> head.err, tys |-> <<>>, warns |-> head.warns]
  ELSE [err |-> tail.err, tys |-> <<head.ty>> \o tail.tys,
        warns |-> head.warns \o tail.warns]

\* The warn() calls `warns` made before the computation `result`.
After(warns, result) == [result EXCEPT !.warns = warns \o @]

Joined(mapped, sep) ==
  IF mapped.err # "" THEN Fail(mapped.err, mapped.warns)
  ELSE Ok(Join(mapped.tys, sep), mapped.warns)

RECURSIVE createType(_, _)
RECURSIVE mapCreateType(_, _, _)
RECURSIVE createArrayType(_, _)
RECURSIVE createObjectType(_, _)
RECURSIVE createObjectTypeProperty(_, _, _, _)
RECURSIVE mapProperties(_, _, _, _)

\* createType applied to a value that may be undefined: reading $ref of
\* undefined throws a TypeError.
createTypeOf(optSchema, map) ==
  IF Has(optSchema) THEN createType(optSchema[1], map) ELSE Fail("TypeError", <<>>)

\* schemas.map(createType)
mapCreateType(schemas, map, i) ==
  IF i > Len(schemas) THEN Nothing
  ELSE Cons(createType(schemas[i], map), mapCreateType(schemas, map, i + 1))

\* createType with oneOf tested next to anyOf, before `not`.
createType_OneOfBeforeNot(schema, map) ==
  IF isRef(schema) THEN getTypeNameFromRef(schema, map)
  ELSE IF Has(schema.allOf) THEN Joined(mapCreateType(schema.allOf[1], map, 1), " & ")
  ELSE IF Has(schema.anyOf) THEN Joined(mapCreateType(schema.anyOf[1], map, 1), " | ")
  ELSE IF Has(schema.oneOf) THEN Joined(mapCreateType(schema.oneOf[1], map, 1), " | ")
  ELSE IF schema.not THEN Fail("NotKeyword", <<>>)
  ELSE IF schema.discriminator THEN Fail("DiscriminatorKeyword", <<>>)
  ELSE After(WarnIf(schema.deprecated, "deprecated") \o WarnIf(schema.default, "default"),
             CASE schema.type = "array" -> createArrayType(schema, map)
               [] schema.type = "object" -> createObjectType(schema, map)
               [] OTHER -> createScalarType(schema))

createType(schema, map) ==
  IF isRef(schema) THEN getTypeNameFromRef(schema, map)
  ELSE IF Has(schema.allOf) THEN Joined(mapCreateType(schema.allOf[1], map, 1), " & ")
  ELSE IF Has(schema.anyOf) THEN Joined(mapCreateType(schema.anyOf[1], map, 1), " | ")
  ELSE IF schema.not THEN Fail("NotKeyword", <<>>)
  ELSE IF Has(schema.oneOf) THEN Joined(mapCreateType(schema.oneOf[1], map, 1), " | ")
  ELSE IF schema.discriminator THEN Fail("DiscriminatorKeyword", <<>>)
  ELSE After(WarnIf(schema.deprecated, "deprecated") \o WarnIf(schema.default, "default"),
             CASE schema.type = "array" -> createArrayType(schema, map)
               [] schema.type = "object" -> createObjectType(schema, map)
               [] OTHER -> createScalarType(schema))

ArrayOf(schema, item) ==
  IF item.err # "" THEN item
  ELSE Ok(Nullable(schema, <<"Array<">> \o item.ty \o <<">">>), item.warns)

createArrayType(schema, map) == ArrayOf(schema, createTypeOf(schema.items, map))

PropertyOf(name, required, type) ==
  IF type.err # "" THEN type
  ELSE Ok(<<"\"">> \o name \o <<"\"">> \o (IF required THEN <<>> ELSE <<"?">>)
            \o <<": ">> \o type.ty,
          type.warns)

createObjectTypeProperty(name, schema, required, map) ==
  After(WarnIf(schema.readOnly, "readOnly") \o WarnIf(schema.writeOnly, "writeOnly")
          \o WarnIf(schema.xml, "xml"),
        PropertyOf(name, required, createType(schema, map)))

\* Object.entries(schema.properties).map(createObjectTypeProperty)
mapProperties(entries, requiredProperties, map, i) ==
  IF i > Len(entries) THEN Nothing
  ELSE Cons(createObjectTypeProperty(entries[i].name, entries[i].schema,
                                     entries[i].name \in requiredProperties, map),
            mapProperties(entries, requiredProperties, map, i + 1))

\* additionalProperties === true || Object.keys(additionalProperties).length === 0
\* (a boolean has no own keys).
IsUnconstrained(additionalProperties) ==
  \/ additionalProperties.kind \in {"true", "false"}
  \/ additionalProperties.kind = "schema" /\ additionalProperties.schema = EmptySchema

\* createType(schema.additionalProperties): a boolean has none of the
\* keywords and falls through to the scalar default.
createTypeOfAdditional(additionalProperties, map) ==
  IF additionalProperties.kind = "schema"
    THEN createType(additionalProperties.schema, map)
    ELSE Fail("UnknownScalarType", <<>>)

\* The value type of the dictionary emitted when there are no properties.
DictionaryValue(additionalProperties, map) ==
  IF IsUnconstrained(additionalProperties) THEN Ok(<<"unknown">>, <<>>)
  ELSE createTypeOfAdditional(additionalProperties, map)

\* The value type of the index signature pushed after the properties.
IndexValue(additionalProperties, map) ==
  IF additionalProperties.kind = "true" THEN Ok(<<"unknown">>, <<>>)
  ELSE createTypeOfAdditional(additionalProperties, map)

Braces(properties) == <<"{", "\n">> \o Join(properties, ",") \o <<"\n", "}">>

\* createObjectType once the properties are compiled; `dictionary` and
\* `index` are the compiled additionalProperties of the two branches.
ObjectOf(schema, props, dictionary, index) ==
  IF props.err # "" THEN Fail(props.err, props.warns)
  ELSE IF ~Has(schema.additionalProperties)
    THEN Ok(Nullable(schema, Braces(props.tys)), props.warns)
  ELSE IF Len(props.tys) = 0
    THEN IF dictionary.err # "" THEN Fail(dictionary.err, props.warns \o dictionary.warns)
         ELSE Ok(Nullable(schema, <<"Record<string, ">> \o dictionary.ty \o <<">">>),
                 props.warns \o dictionary.warns)
  ELSE IF index.err # "" THEN Fail(index.err, props.warns \o index.warns)
  ELSE Ok(Nullable(schema,
            Braces(Append(props.tys, <<"[key: string]: ">> \o index.ty))),
          props.warns \o index.warns)

createObjectType(schema, map) ==
  ObjectOf(schema,
    IF Has(schema.properties)
      THEN mapProperties(schema.properties[1], schema.required, map, 1) ELSE Nothing,
    IF Has(schema.additionalProperties)
      THEN DictionaryValue(schema.additionalProperties[1], map) ELSE Fail("", <<>>),
    IF Has(schema.additionalProperties)
      THEN IndexValue(schema.additionalProperties[1], map) ELSE Fail("", <<>>))

(***************************************************************************)
(* Output fragments.  A fragment is kept as the declaration it prints:     *)
(* its kind, the name it declares, its body text and its children.         *)
(***************************************************************************)
createComment(lines) ==
  [kind |-> "comment", name |-> <<>>, body |-> lines, children |-> <<>>]

createTypeAlias(name, typeDefinition) ==
  [kind |-> "type", name |-> name, body |-> typeDefinition, children |-> <<>>]

createNamespace(name, children) ==
  [kind |-> "namespace", name |-> name, body |-> <<>>, children |-> children]

\* createInfoHeader reads openApiDocument.info.
createInfoHeader(openApiDocument) == createComment(<<"info">>)

(***************************************************************************)
(* Default generators (src/client.js)                                      *)
(***************************************************************************)
createImports(openApiDocument) ==
  [kind |-> "imports", name |-> <<>>, body |-> <<"react-query">>, children |-> <<>>]

getServerUrl(server) == server.url

createRequestFunction(openApiDocument, customBaseUrl) ==
  [kind |-> "request", name |-> <<"request">>,
   body |-> IF Has(customBaseUrl) /\ customBaseUrl[1] # ""
              THEN <<"\"", customBaseUrl[1], "\"">>
            ELSE IF Has(openApiDocument.servers) /\ Len(openApiDocument.servers[1]) # 0
              THEN <<"\"", getServerUrl(openApiDocument.servers[1][1]), "\"">>
            ELSE <<"process.env.NEXT_PUBLIC_API_BASE_URL">>,
   children |-> <<>>]

\* A reference `${typeName}.A.B` to a member of the operation's namespace.
Member(typeName, path) == [ns |-> typeName, path |-> path]

\* The entries without the filter: a falsy entry stays.
FilterBoolean_KeepAll(entries) == [i \in 1..Len(entries) |-> entries[i].value]

\* [a, b, c].filter(Boolean) over entries that are `cond && value`.
RECURSIVE FilterBoolean(_)
FilterBoolean(entries) ==
  IF Len(entries) = 0 THEN <<>>
  ELSE (IF entries[1].cond THEN <<entries[1].value>> ELSE <<>>)
         \o FilterBoolean(Tail(entries))

\* A parameter of a generated function: its name ("" inside a type list),
\* whether it is optional, the generic type wrapped around its type
\* arguments ("" for none) and the namespace members that are its type.
Param(name, optional, generic, types) ==
  [name |-> name, optional |-> optional, generic |-> generic, types |-> types]

\* createEndpoint of the default client: the callable and its hook.
\* `parameters` is the set of locations that have a truthy entry.
createEndpoint(operationName, method, pathTemplate, parameters, hasRequestBody, headers, returnType, typeName) ==
  LET Success == Member(typeName, <<ResponseName, SuccessName>>)
      Error == Member(typeName, <<ResponseName, ErrorName>>)
      params == FilterBoolean(<<
        [cond |-> PathLoc \in parameters,
         value |-> Param("pathParams", FALSE, "", <<Member(typeName, <<PathParametersName>>)>>)],
        [cond |-> QueryLoc \in parameters,
         value |-> Param("queryParams", FALSE, "", <<Member(typeName, <<QueryParametersName>>)>>)],
        [cond |-> hasRequestBody,
         value |-> Param("body", FALSE, "", <<Member(typeName, <<RequestBodyName>>)>>)]>>)
      mutationFnParams == FilterBoolean(<<
        [cond |-> PathLoc \in parameters,
         value |-> Param("", FALSE, "", <<Member(typeName, <<PathParametersName>>)>>)],
        [cond |-> QueryLoc \in parameters,
         value |-> Param("", FALSE, "", <<Member(typeName, <<QueryParametersName>>)>>)],
        [cond |-> hasRequestBody,
         value |-> Param("", FALSE, "", <<Member(typeName, <<RequestBodyName>>)>>)],
        [cond |-> TRUE,
         value |-> Param("", FALSE, "RequestOptions", <<Success>>)]>>)
      isQueryHook == [i \in 1..Len(method) |-> toLowerCase(method[i])] = GET
      requestOptions == Param("requestOptions", TRUE, "RequestOptions", <<Success>>)
      queryHookParams ==
        params \o <<Param("options", TRUE, "UseQueryOptions", <<Success, Error>>),
                    requestOptions>>
      hooksCacheKey == FilterBoolean(<<
        [cond |-> PathLoc \in parameters, value |-> "pathParams"],
        [cond |-> QueryLoc \in parameters, value |-> "queryParams"]>>)
  IN
  [kind |-> "endpoint", name |-> operationName, body |-> <<>>, children |-> <<>>,
   callable |->
     [name |-> operationName,
      \* a non-GET callable takes its arguments as one destructured tuple
      tuple |-> ~isQueryHook,
      params |-> Append(params, requestOptions),
      returns |-> Success,
      path |-> pathTemplate, interpolated |-> PathLoc \in parameters,
      query |-> QueryLoc \in parameters, method |-> method,
      body |-> hasRequestBody, headers |-> headers, returnType |-> returnType],
   hook |->
     [name |-> <<"u", "s", "e">> \o capitalize(operationName),
      hook |-> IF isQueryHook THEN "useQuery" ELSE "useMutation",
      params |-> IF isQueryHook THEN queryHookParams
                 ELSE <<Param("options", TRUE, "UseMutationOptions",
                              <<Success, Error>>)>>,
      variables |-> IF isQueryHook THEN <<>> ELSE mutationFnParams,
      returns |-> <<Success, Error>>,
      cacheKey |-> IF isQueryHook THEN hooksCacheKey ELSE <<>>]]

(***************************************************************************)
(* Document emitter and endpoint assembler (src/generate.js)               *)
(*                                                                         *)
(* The synchronous part of generate threads a state st: the error thrown   *)
(* so far ("" for none), the identifier registry, the statements pushed    *)
(* and the warn() calls made.  A step applied after a throw does nothing.  *)
(***************************************************************************)
Truthy(optString) == Has(optString) /\ optString[1] # <<>>

Push(st, statements, warns) ==
  [st EXCEPT !.statements = @ \o statements, !.warns = @ \o warns]

\* The error caught and skipped: the statements go on.
Throw_Skipped(st, err, warns) == [st EXCEPT !.warns = @ \o warns]

Throw(st, err, warns) == [st EXCEPT !.err = err, !.warns = @ \o warns]

\* One more call of createTypeName in this run (kept to tell which
\* reservation a run reached).
Called(st) == [st EXCEPT !.calls = @ + 1]

\* getRequestBodySchemas: the body object itself when it has no content,
\* else the schema of every media type (undefined where there is none).
getRequestBodySchemas(maybeSchema) ==
  IF ~Has(maybeSchema.content) THEN <<Some(maybeSchema.self)>>
  ELSE [i \in 1..Len(maybeSchema.content[1]) |-> maybeSchema.content[1][i].schema]

\* optSchemas.map(createType)
RECURSIVE mapCreateTypeOf(_, _, _)
mapCreateTypeOf(optSchemas, map, i) ==
  IF i > Len(optSchemas) THEN Nothing
  ELSE Cons(createTypeOf(optSchemas[i], map), mapCreateTypeOf(optSchemas, map, i + 1))

\* One component compiled to an alias: `reserved` is the result of
\* createTypeName and `type` that of createType, called in this order.
Alias(st, reserved, type) ==
  IF reserved.err # "" THEN Throw(Called(st), reserved.err, <<>>)
  ELSE IF type.err # "" THEN Throw([Called(st) EXCEPT !.created = reserved.created],
                                   type.err, type.warns)
  ELSE Push([Called(st) EXCEPT !.created = reserved.created],
            <<createTypeAlias(reserved.typeName, type.ty)>>, type.warns)

RECURSIVE TypesFromSchemas(_, _, _, _)
TypesFromSchemas(entries, i, st, map) ==
  IF i > Len(entries) \/ st.err # "" THEN st
  ELSE TypesFromSchemas(entries, i + 1,
         Alias(st, createTypeName(entries[i].name, NoSuffix, st.created),
               createType(entries[i].schema, map)),
         map)

createTypesFromSchemas(openApiDocument, st, map) ==
  IF st.err # "" THEN st
  ELSE IF ~Has(openApiDocument.components) THEN st
  ELSE IF ~Has(openApiDocument.components[1].schemas) THEN st
  ELSE TypesFromSchemas(openApiDocument.components[1].schemas[1], 1, st, map)

createTypesFromParameters(openApiDocument, st) ==
  IF st.err # "" THEN st
  ELSE IF ~Has(openApiDocument.components) THEN st
  ELSE IF ~Has(openApiDocument.components[1].parameters) THEN st
  ELSE Throw(st, "ComponentsParameters", <<>>)

\* const [schema] = getRequestBodySchemas(component)
First(schemas) == IF Len(schemas) = 0 THEN None ELSE schemas[1]

RECURSIVE TypesFromRequestBodies(_, _, _, _)
TypesFromRequestBodies(entries, i, st, map) ==
  IF i > Len(entries) \/ st.err # "" THEN st
  ELSE TypesFromRequestBodies(entries, i + 1,
         Alias(st, createTypeName(entries[i].name, RequestBodySuffix, st.created),
               createTypeOf(First(getRequestBodySchemas(entries[i].component)), map)),
         map)

createTypesFromRequestBodies(openApiDocument, st, map) ==
  IF st.err # "" THEN st
  ELSE IF ~Has(openApiDocument.components) THEN st
  ELSE IF ~Has(openApiDocument.components[1].requestBodies) THEN st
  ELSE TypesFromRequestBodies(openApiDocument.components[1].requestBodies[1], 1, st, map)

createTypesFromResponses(openApiDocument, st) ==
  IF st.err # "" THEN st
  ELSE IF ~Has(openApiDocument.components) THEN st
  ELSE IF ~Has(openApiDocument.components[1].responses) THEN st
  ELSE Throw(st, "ComponentsResponses", <<>>)

\* The entry added without a look at the keys there are.
PutProperty_Appended(properties, name, schema) ==
  Append(properties, [name |-> name, schema |-> schema])

\* properties[name] = schema on an object kept in key order: a key that
\* exists keeps its position and takes the new value.
PutProperty(properties, name, schema) ==
  IF \E i \in 1..Len(properties) : properties[i].name = name
    THEN [i \in 1..Len(properties) |->
            IF properties[i].name = name
              THEN [name |-> name, schema |-> schema] ELSE properties[i]]
    ELSE Append(properties, [name |-> name, schema |-> schema])

\* One step of allParameters.forEach: parametersByLocation after `parameter`.
AddParameter(byLocation, parameter) ==
  LET groups == IF \E i \in 1..Len(byLocation) : byLocation[i].location = parameter.in
                  THEN byLocation
                  ELSE Append(byLocation,
                         [location |-> parameter.in, required |-> <<>>, properties |-> <<>>])
  IN [i \in 1..Len(groups) |->
        IF groups[i].location = parameter.in
          THEN [location |-> groups[i].location,
                required |-> IF parameter.required # "false"
                               THEN Append(groups[i].required, parameter.name)
                               ELSE groups[i].required,
                properties |-> PutProperty(groups[i].properties, parameter.name,
                                           parameter.schema)]
          ELSE groups[i]]

RECURSIVE GroupParameters(_, _, _)
GroupParameters(allParameters, i, byLocation) ==
  IF i > Len(allParameters) THEN byLocation
  ELSE GroupParameters(allParameters, i + 1, AddParameter(byLocation, allParameters[i]))

Range(seq) == {seq[i] : i \in 1..Len(seq)}

LocationSchema(group) ==
  [EmptySchema EXCEPT !.type = "object", !.required = Range(group.required),
                      !.properties = Some(group.properties)]

\* The alias of a compiled type, or the error of its compilation.
AliasOf(typeName, type) ==
  IF type.err # "" THEN type
  ELSE [err |-> "", ty |-> createTypeAlias(typeName, type.ty), warns |-> type.warns]

\* Object.entries(parametersByLocation).forEach: one alias per location.
RECURSIVE ParameterTypes(_, _, _)
ParameterTypes(byLocation, map, i) ==
  IF i > Len(byLocation) THEN Nothing
  ELSE Cons(AliasOf(createTypeIdentifier(byLocation[i].location \o ParametersSuffix,
                                         NoSuffix),
                    createType(LocationSchema(byLocation[i]), map)),
            ParameterTypes(byLocation, map, i + 1))

startsWith(string, char) == Len(string) > 0 /\ string[1] = char

IsSuccessStatus(statusCode) == startsWith(statusCode, "2")

\* The error group without the status code `default`.
IsErrorStatus_RangesOnly(statusCode) ==
  startsWith(statusCode, "4") \/ startsWith(statusCode, "5")

IsErrorStatus(statusCode) ==
  \/ statusCode = DefaultStatus
  \/ startsWith(statusCode, "4")
  \/ startsWith(statusCode, "5")

\* `first` and then `second`, which is not reached when `first` throws.
Then(first, second) ==
  IF first.err # "" THEN [err |-> first.err, tys |-> <<>>, warns |-> first.warns]
  ELSE [err |-> second.err, tys |-> first.tys \o second.tys,
        warns |-> first.warns \o second.warns]

\* The members one response contributes to its group.
ResponseMembers(response, placeholder, map) ==
  IF ~Has(response.content)
    THEN [err |-> "", tys |-> <<<<placeholder>>>>, warns |-> <<>>]
    ELSE mapCreateTypeOf([k \in 1..Len(response.content[1]) |->
                            response.content[1][k].schema], map, 1)

\* .filter(...).map(...).flat() over the responses of one group.
RECURSIVE ResponseTypes(_, _, _, _, _)
ResponseTypes(responses, success, placeholder, map, i) ==
  IF i > Len(responses) THEN Nothing
  ELSE IF ~(IF success THEN IsSuccessStatus(responses[i].statusCode)
                       ELSE IsErrorStatus(responses[i].statusCode))
    THEN ResponseTypes(responses, success, placeholder, map, i + 1)
  ELSE Then(ResponseMembers(responses[i], placeholder, map),
            ResponseTypes(responses, success, placeholder, map, i + 1))

\* types.length ? types : [placeholder], joined to a union.
UnionOr(types, placeholder) ==
  createTypeUnion(IF Len(types) # 0 THEN types ELSE <<<<placeholder>>>>)

ResponseOf(successResponses, errorResponses) ==
  IF successResponses.err # "" THEN successResponses
  ELSE IF errorResponses.err # ""
    THEN [err |-> errorResponses.err, tys |-> <<>>,
          warns |-> successResponses.warns \o errorResponses.warns]
  ELSE [err |-> "",
        tys |-> <<createNamespace(createTypeIdentifier(ResponseName, NoSuffix),
                    <<createTypeAlias(SuccessName, UnionOr(successResponses.tys, "void")),
                      createTypeAlias(ErrorName, UnionOr(errorResponses.tys, "unknown"))>>)>>,
        warns |-> successResponses.warns \o errorResponses.warns]

\* The nested Response namespace of an operation that declares responses.
ResponseNamespace(responses, map) ==
  ResponseOf(ResponseTypes(responses, TRUE, "void", map, 1),
             ResponseTypes(responses, FALSE, "unknown", map, 1))

RequestBodyOf(requestBodies) ==
  IF requestBodies.err # "" THEN requestBodies
  ELSE [err |-> "",
        tys |-> <<createTypeAlias(createTypeIdentifier(RequestBodyName, NoSuffix),
                                  createTypeUnion(requestBodies.tys))>>,
        warns |-> requestBodies.warns]

\* The RequestBody alias of an operation that declares a request body.
RequestBodyType(requestBody, map) ==
  RequestBodyOf(mapCreateTypeOf(getRequestBodySchemas(requestBody), map, 1))

\* const allParameters = [...sharedParameters, ...parameters], grouped.
ParametersByLocation(sharedParameters, operation) ==
  GroupParameters(
    sharedParameters \o (IF Has(operation.parameters) THEN operation.parameters[1] ELSE <<>>),
    1, <<>>)

\* The children of the operation's namespace, in the order they are
\* pushed: parameter aliases, the Response namespace, the RequestBody alias.
Namespace(sharedParameters, operation, map) ==
  Then(Then(ParameterTypes(ParametersByLocation(sharedParameters, operation), map, 1),
            IF Has(operation.responses)
              THEN ResponseNamespace(operation.responses[1], map) ELSE Nothing),
       IF Has(operation.requestBody)
         THEN RequestBodyType(operation.requestBody[1], map) ELSE Nothing)

OpName(path, method, operation) ==
  IF Truthy(operation.operationId) THEN operation.operationId[1] ELSE method \o path

Locations(byLocation) == {byLocation[i].location : i \in 1..Len(byLocation)}

\* The operation's function pushed before its namespace.
OperationOf_EndpointFirst(st, operation, reserved, namespace, endpoint) ==
  IF reserved.err # "" THEN Throw(Called(st), reserved.err, <<>>)
  ELSE IF namespace.err # ""
    THEN Throw([Called(st) EXCEPT !.created = reserved.created],
               namespace.err, namespace.warns)
  ELSE Push([Called(st) EXCEPT !.created = reserved.created],
            (IF operation.described THEN <<createComment(<<"operation">>)>> ELSE <<>>)
              \o <<endpoint, createNamespace(reserved.typeName, namespace.tys)>>,
            namespace.warns)

\* What one operation pushes: `reserved` is the result of createTypeName,
\* `namespace` that of compiling the namespace children, `endpoint` the
\* fragment returned by the createEndpoint hook.
OperationOf(st, operation, reserved, namespace, endpoint) ==
  IF reserved.err # "" THEN Throw(Called(st), reserved.err, <<>>)
  ELSE IF namespace.err # ""
    THEN Throw([Called(st) EXCEPT !.created = reserved.created],
               namespace.err, namespace.warns)
  ELSE Push([Called(st) EXCEPT !.created = reserved.created],
            (IF operation.described THEN <<createComment(<<"operation">>)>> ELSE <<>>)
              \o <<createNamespace(reserved.typeName, namespace.tys), endpoint>>,
            namespace.warns)

\* The body of the forEach over the operations of one path item.
Operation(path, sharedParameters, method, operation, st, map) ==
  OperationOf(st, operation,
    createTypeName(OpName(path, method, operation), NoSuffix, st.created),
    Namespace(sharedParameters, operation, map),
    createEndpoint(createOperationName(OpName(path, method, operation)), method, path,
                   Locations(ParametersByLocation(sharedParameters, operation)),
                   Has(operation.requestBody),
                   IF Has(operation.requestBody)
                     THEN <<"Content-Type: application/json">> ELSE <<>>,
                   "json",
                   createTypeIdentifier(OpName(path, method, operation), NoSuffix)))

RECURSIVE Operations(_, _, _, _, _, _)
Operations(path, sharedParameters, entries, j, st, map) ==
  IF j > Len(entries) \/ st.err # "" THEN st
  ELSE IF entries[j].method \notin HTTP_METHODS
    THEN Operations(path, sharedParameters, entries, j + 1, st, map)
  ELSE Operations(path, sharedParameters, entries, j + 1,
         Operation(path, sharedParameters, entries[j].method, entries[j].operation,
                   st, map),
         map)

\* The path item after its comment was pushed.
PathItemOf(path, operations, st, map) ==
  IF Truthy(operations.ref) THEN Throw(st, "PathItemRef", <<>>)
  ELSE IF operations.servers THEN Throw(st, "PerEndpointServers", <<>>)
  ELSE Operations(path,
                  IF Has(operations.parameters) THEN operations.parameters[1] ELSE <<>>,
                  operations.entries, 1, st, map)

\* The body of the forEach over the path items.
PathItem(path, operations, st, map) ==
  PathItemOf(path, operations,
    Push(st, IF operations.described THEN <<createComment(<<"path">>)>> ELSE <<>>, <<>>),
    map)

RECURSIVE Paths(_, _, _, _)
Paths(paths, i, st, map) ==
  IF i > Len(paths) \/ st.err # "" THEN st
  ELSE Paths(paths, i + 1, PathItem(paths[i].path, paths[i].operations, st, map), map)

createEndpoints(openApiDocument, st, map) ==
  IF st.err # "" THEN st
  ELSE IF ~Has(openApiDocument.paths) THEN Throw(st, "TypeError", <<>>)
  ELSE Paths(openApiDocument.paths[1], 1, st, map)

\* warn(key) for every key of `warns` in order: shownWarnings and the
\* lines written by console.warn afterwards.
RECURSIVE warn(_, _, _)
warn(warns, shown, console) ==
  IF Len(warns) = 0 THEN [shown |-> shown, console |-> console]
  ELSE IF warns[1] \in shown THEN warn(Tail(warns), shown, console)
  ELSE warn(Tail(warns), shown \cup {warns[1]}, Append(console, warns[1]))

\* defaultPreProcess: a 2.0 document is converted by swagger2openapi to
\* version 3.0.3; any other document is returned as it is.
defaultPreProcess(openApiDocument) ==
  IF Has(openApiDocument.swagger) /\ openApiDocument.swagger[1] = <<"2", ".", "0">>
    THEN [openApiDocument EXCEPT !.swagger = None,
                                 !.openapi = Some(<<"3", ".", "0", ".", "3">>)]
    ELSE openApiDocument

\* defaultValidate: whether it returns without throwing.
defaultValidate(openApiDocument) ==
  Has(openApiDocument.openapi) /\ startsWith(openApiDocument.openapi[1], "3")

\* statements.push(createRequestFunction(...)), unless a throw came before.
PushRequestFunction(openApiDocument, baseUrl, st) ==
  IF st.err # "" THEN st
  ELSE Push(st, <<createRequestFunction(openApiDocument, baseUrl)>>, <<>>)

\* generate from buildRefMap on, with the ref table `map` it has built.
StatementsWith(openApiDocument, baseUrl, st, map) ==
  [st |-> createEndpoints(openApiDocument,
            PushRequestFunction(openApiDocument, baseUrl,
              createTypesFromResponses(openApiDocument,
                createTypesFromRequestBodies(openApiDocument,
                  createTypesFromParameters(openApiDocument,
                    createTypesFromSchemas(openApiDocument, st, map)),
                  map))),
            map),
   map |-> map]

NewStatements(created) ==
  [err |-> "", created |-> created, statements |-> <<>>, warns |-> <<>>, calls |-> 0]

\* generate from the statement after `await validate` up to the call of
\* prettier.format, on the module-level registry and ref table.
Statements(openApiDocument, baseUrl, created, map) ==
  IF ~Has(openApiDocument.info)
    THEN [st |-> Throw(NewStatements(created), "TypeError", <<>>), map |-> map]
    ELSE StatementsWith(openApiDocument, baseUrl,
           Push(NewStatements(created),
                <<createInfoHeader(openApiDocument), createImports(openApiDocument)>>,
                <<>>),
           buildRefMap(openApiDocument, map))

(***************************************************************************)
(* Inputs: names, schemas and documents the host passes to generate        *)
(***************************************************************************)
Name_Pet == <<"P", "e", "t">>

Name_pet == <<"p", "e", "t">>

Name_Tag == <<"T", "a", "g">>

Name_Missing == <<"M", "i", "s", "s", "i", "n", "g">>

Name_getPet == <<"g", "e", "t", "P", "e", "t">>

Name_get_pet == <<"g", "e", "t", "_", "p", "e", "t">>

Name_getTag == <<"g", "e", "t", "T", "a", "g">>

Name_addPet == <<"a", "d", "d", "P", "e", "t">>

Name_usePet == <<"u", "s", "e", "P", "e", "t">>

PetPath == <<"/", "p", "e", "t">>

TagPath == <<"/", "t", "a", "g">>

PetIdPath == <<"/", "p", "e", "t", "/", "{", "i", "d", "}">>

IdName == <<"i", "d">>

Status200 == <<"2", "0", "0">>

Status204 == <<"2", "0", "4">>

Status301 == <<"3", "0", "1">>

Status404 == <<"4", "0", "4">>

Status500 == <<"5", "0", "0">>

Status2XX == <<"2", "X", "X">>

Version30 == <<"3", ".", "0", ".", "0">>

StringSchema == [EmptySchema EXCEPT !.type = "string"]

IntegerSchema == [EmptySchema EXCEPT !.type = "integer"]

BooleanSchema == [EmptySchema EXCEPT !.type = "boolean"]

RefSchema(key, name) == [EmptySchema EXCEPT !.ref = Some(RefPath(key, name))]

Json(schema) == Some(<<[mediaType |-> "application/json", schema |-> Some(schema)]>>)

Response(statusCode, content) == [statusCode |-> statusCode, content |-> content]

InlineBody(schema) == [content |-> Json(schema), self |-> EmptySchema]

\* A request body given as a reference object: it has no content.
RefBody(name) == [content |-> None, self |-> RefSchema("requestBodies", name)]

Parameter(in, name, schema, required) ==
  [in |-> in, name |-> name, schema |-> schema, required |-> required]

Op(operationId, parameters, requestBody, responses) ==
  [described |-> FALSE, operationId |-> operationId, parameters |-> parameters,
   requestBody |-> requestBody, responses |-> responses]

Item(parameters, entries) ==
  [described |-> FALSE, ref |-> None, servers |-> FALSE, parameters |-> parameters,
   entries |-> entries]

Components(schemas, requestBodies) ==
  Some([schemas |-> schemas, parameters |-> None, requestBodies |-> requestBodies,
        responses |-> None])

Document(components, paths) ==
  [openapi |-> Some(Version30), swagger |-> None, info |-> Some("info"),
   servers |-> None, components |-> components, paths |-> Some(paths)]

OkResponse(schema) == Some(<<Response(Status200, Json(schema))>>)

PetSchemas == Some(<<[name |-> Name_Pet, schema |-> StringSchema]>>)

\* Pet declared and used by GET /pet.
PetDocument ==
  Document(Components(PetSchemas, None),
    <<[path |-> PetPath,
       operations |-> Item(None, <<[method |-> GET,
         operation |-> Op(Some(Name_getPet), None, None,
                          OkResponse(RefSchema("schemas", Name_Pet)))]>>)]>>)

\* GET /tag refers to the schema Pet, which this document does not declare.
DanglingDocument ==
  Document(None,
    <<[path |-> TagPath,
       operations |-> Item(None, <<[method |-> GET,
         operation |-> Op(None, None, None,
                          OkResponse(RefSchema("schemas", Name_Pet)))]>>)]>>)

\* Pet refers to Tag, which is declared after it; Tag refers to itself.
ForwardDocument ==
  Document(Components(Some(<<
      [name |-> Name_Pet, schema |-> RefSchema("schemas", Name_Tag)],
      [name |-> Name_Tag,
       schema |-> [EmptySchema EXCEPT !.type = "array",
                                      !.items = Some(RefSchema("schemas", Name_Tag))]]>>),
    None), <<>>)

\* Two component schemas with the same identifier.
TwinSchemasDocument ==
  Document(Components(Some(<<[name |-> Name_Pet, schema |-> StringSchema],
                             [name |-> Name_pet, schema |-> IntegerSchema]>>), None),
           <<>>)

\* A component request body, used by reference by POST /pet.
BodyDocument ==
  Document(Components(None, Some(<<[name |-> Name_Pet,
                                    component |-> InlineBody(StringSchema)]>>)),
    <<[path |-> PetPath,
       operations |-> Item(None, <<[method |-> POST,
         operation |-> Op(Some(Name_addPet), None, Some(RefBody(Name_Pet)),
                          OkResponse(StringSchema))]>>)]>>)

\* GET /pet without operationId and an operation named get_pet.
TwinOperationsDocument ==
  Document(None,
    <<[path |-> PetPath,
       operations |-> Item(None, <<
         [method |-> GET, operation |-> Op(None, None, None, OkResponse(StringSchema))],
         [method |-> POST,
          operation |-> Op(Some(Name_get_pet), None, None, OkResponse(StringSchema))]>>)]>>)

\* The schema Pet and an operation named pet.
SchemaOperationDocument ==
  Document(Components(PetSchemas, None),
    <<[path |-> TagPath,
       operations |-> Item(None, <<[method |-> GET,
         operation |-> Op(Some(Name_pet), None, None, OkResponse(StringSchema))]>>)]>>)

\* A request body Pet next to a schema named PetRequestBody.
BodySchemaDocument ==
  Document(Components(Some(<<[name |-> Name_Pet \o RequestBodySuffix,
                              schema |-> StringSchema]>>),
                      Some(<<[name |-> Name_Pet, component |-> InlineBody(StringSchema)]>>)),
           <<>>)

\* A 2.0 document.
SwaggerDocument ==
  [Document(None, <<>>) EXCEPT !.openapi = None, !.swagger = Some(<<"2", ".", "0">>)]

\* Neither a 2.0 nor a 3.x document.
UnversionedDocument == [Document(Components(PetSchemas, None), <<>>) EXCEPT !.openapi = None]

\* components.parameters is present.
ComponentParametersDocument ==
  [Document(None, <<>>) EXCEPT
     !.components = Some([schemas |-> PetSchemas,
                          parameters |-> Some(<<[name |-> IdName]>>),
                          requestBodies |-> None, responses |-> None])]

\* An operation that declares no responses, after a schema with keywords
\* that are warned about.
NoResponsesDocument ==
  Document(Components(Some(<<[name |-> Name_Tag,
       schema |-> [StringSchema EXCEPT !.deprecated = "truthy", !.default = "falsy"]]>>),
     None),
    <<[path |-> PetIdPath,
       operations |-> Item(Some(<<Parameter(PathLoc, IdName, StringSchema, "absent")>>),
         <<[method |-> <<"h", "e", "a", "d">>,
            operation |-> Op(None, None, None, None)],
           [method |-> DELETE, operation |-> Op(None, None, None, None)]>>)]>>)

Documents ==
  {PetDocument, DanglingDocument, ForwardDocument, TwinSchemasDocument, BodyDocument,
   TwinOperationsDocument, SchemaOperationDocument, BodySchemaDocument, SwaggerDocument,
   UnversionedDocument, ComponentParametersDocument, NoResponsesDocument}

(***************************************************************************)
(* The process: the module-level state of src/utils.js and                 *)
(* src/generate.js and the generate calls in flight                        *)
(***************************************************************************)
VARIABLES
  createdTypeNames,  \* utils.js: const createdTypeNames = new Set()
  refMap,            \* utils.js: const refMap = new Map()
  shownWarnings,     \* generate.js: const shownWarnings = {}
  console,           \* the keys console.warn has printed, in order
  runs,              \* the generate calls made so far, in call order
  schema,            \* the argument of a direct createType call
  compiled           \* its result, None before the call

vars == <<createdTypeNames, refMap, shownWarnings, console, runs, schema, compiled>>

MaxRuns == 2

EmptyMap == <<>>

NewRun(openApiDocument) ==
  [pc |-> "preProcess", input |-> openApiDocument, document |-> openApiDocument,
   err |-> "", statements |-> <<>>, calls |-> 0, text |-> None, file |-> None]

Init ==
  /\ createdTypeNames = {}
  /\ refMap = EmptyMap
  /\ shownWarnings = {}
  /\ console = <<>>
  /\ runs = <<>>
  /\ schema = EmptySchema
  /\ compiled = None

\* The host calls generate({ openApiDocument }) with the default hooks.
Generate(openApiDocument) ==
  /\ Len(runs) < MaxRuns
  /\ runs' = Append(runs, NewRun(openApiDocument))
  /\ UNCHANGED <<createdTypeNames, refMap, shownWarnings, console, schema, compiled>>

\* await preProcess({ openApiDocument }) completes.
PreProcess(r) ==
  /\ runs[r].pc = "preProcess"
  /\ runs' = [runs EXCEPT ![r].pc = "validate",
                          ![r].document = defaultPreProcess(runs[r].input)]
  /\ UNCHANGED <<createdTypeNames, refMap, shownWarnings, console, schema, compiled>>

\* validate applied to the document generate was called with.
Validate_OnInput(r) ==
  /\ runs[r].pc = "validate"
  /\ runs' = IF defaultValidate(runs[r].input)
               THEN [runs EXCEPT ![r].pc = "statements"]
               ELSE [runs EXCEPT ![r].pc = "thrown", ![r].err = "Validation"]
  /\ UNCHANGED <<createdTypeNames, refMap, shownWarnings, console, schema, compiled>>

\* await validate({ openApiDocument }) completes or throws.
Validate(r) ==
  /\ runs[r].pc = "validate"
  /\ runs' = IF defaultValidate(runs[r].document)
               THEN [runs EXCEPT ![r].pc = "statements"]
               ELSE [runs EXCEPT ![r].pc = "thrown", ![r].err = "Validation"]
  /\ UNCHANGED <<createdTypeNames, refMap, shownWarnings, console, schema, compiled>>

\* The synchronous part run on the registry and ref table as they were
\* at module load, its reservations merged in afterwards.
Compile_OnSnapshot(r) ==
  /\ runs[r].pc = "statements"
  /\ \E result \in {Statements(runs[r].document, None, {}, EmptyMap)} :
     LET warned == warn(result.st.warns, shownWarnings, console)
     IN /\ createdTypeNames' = createdTypeNames \cup result.st.created
        /\ refMap' = result.map
        /\ shownWarnings' = warned.shown
        /\ console' = warned.console
        /\ runs' = IF result.st.err # ""
                     THEN [runs EXCEPT ![r].pc = "thrown", ![r].err = result.st.err,
                                       ![r].calls = result.st.calls]
                     ELSE [runs EXCEPT ![r].pc = "format",
                                       ![r].statements = result.st.statements,
                                       ![r].calls = result.st.calls]
  /\ UNCHANGED <<schema, compiled>>

\* The synchronous part of generate, up to the call of prettier.format.
Compile(r) ==
  /\ runs[r].pc = "statements"
  /\ \E result \in {Statements(runs[r].document, None, createdTypeNames, refMap)} :
     LET warned == warn(result.st.warns, shownWarnings, console)
     IN /\ createdTypeNames' = result.st.created
        /\ refMap' = result.map
        /\ shownWarnings' = warned.shown
        /\ console' = warned.console
        /\ runs' = IF result.st.err # ""
                     THEN [runs EXCEPT ![r].pc = "thrown", ![r].err = result.st.err,
                                       ![r].calls = result.st.calls]
                     ELSE [runs EXCEPT ![r].pc = "format",
                                       ![r].statements = result.st.statements,
                                       ![r].calls = result.st.calls]
  /\ UNCHANGED <<schema, compiled>>

\* await prettier.format(statements.join(...)) completes; generate returns.
Format(r) ==
  /\ runs[r].pc = "format"
  /\ runs' = [runs EXCEPT ![r].pc = "returned", ![r].text = Some(runs[r].statements)]
  /\ UNCHANGED <<createdTypeNames, refMap, shownWarnings, console, schema, compiled>>

Next ==
  \/ \E openApiDocument \in Documents : Generate(openApiDocument)
  \/ \E r \in 1..Len(runs) : PreProcess(r)
  \/ \E r \in 1..Len(runs) : Validate(r)
  \/ \E r \in 1..Len(runs) : Compile(r)
  \/ \E r \in 1..Len(runs) : Format(r)

Spec == Init /\ [][Next]_vars

(***************************************************************************)
(* Reading a run: its outcome, what its document declares and what its     *)
(* output declares                                                         *)
(***************************************************************************)
Succeeded(r) == runs[r].pc \in {"format", "returned"}

Aborted(r) == runs[r].pc = "thrown"

\* The run is past the synchronous part of generate.
Emitted(r) == Succeeded(r) \/ (Aborted(r) /\ runs[r].err # "Validation")

Distinct(seq) == \A i, j \in 1..Len(seq) : seq[i] = seq[j] => i = j

\* The smallest position of seq whose element occurred before it.
FirstRepeat(seq) ==
  CHOOSE j \in 1..Len(seq) :
    /\ \E i \in 1..(j - 1) : seq[i] = seq[j]
    /\ \A k \in 1..(j - 1) : \A i \in 1..(k - 1) : seq[i] # seq[k]

SchemaEntries(document) ==
  IF Has(document.components) /\ Has(document.components[1].schemas)
    THEN document.components[1].schemas[1] ELSE <<>>

RequestBodyEntries(document) ==
  IF Has(document.components) /\ Has(document.components[1].requestBodies)
    THEN document.components[1].requestBodies[1] ELSE <<>>

RECURSIVE Flatten(_)
Flatten(seqs) == IF Len(seqs) = 0 THEN <<>> ELSE seqs[1] \o Flatten(Tail(seqs))

IsOperation(entry) == entry.method \in HTTP_METHODS

\* The operations of a document in document order, each with its path.
OperationsOf(document) ==
  IF ~Has(document.paths) THEN <<>>
  ELSE Flatten([i \in 1..Len(document.paths[1]) |->
         LET item == document.paths[1][i].operations
             entries == SelectSeq(item.entries, IsOperation)
         IN [j \in 1..Len(entries) |->
               [path |-> document.paths[1][i].path, method |-> entries[j].method,
                shared |-> IF Has(item.parameters) THEN item.parameters[1] ELSE <<>>,
                operation |-> entries[j].operation]]])

\* The identifiers of the top-level declarations a document asks for:
\* component schemas, component request bodies, operations.
TopLevelIdentifiers(document) ==
  [i \in 1..Len(SchemaEntries(document)) |->
     toPascalCase(SchemaEntries(document)[i].name)]
  \o [i \in 1..Len(RequestBodyEntries(document)) |->
        toPascalCase(RequestBodyEntries(document)[i].name \o RequestBodySuffix)]
  \o [i \in 1..Len(OperationsOf(document)) |->
        toPascalCase(OpName(OperationsOf(document)[i].path,
                            OperationsOf(document)[i].method,
                            OperationsOf(document)[i].operation))]

IsDeclaration(statement) == statement.kind \in {"type", "namespace"}

\* The names of the top-level type aliases and namespaces of an output.
DeclaredNames(statements) ==
  LET declarations == SelectSeq(statements, IsDeclaration)
  IN [i \in 1..Len(declarations) |-> declarations[i].name]

\* C1: the top-level type identifiers of one run (component schema aliases,
\* request-body aliases, operation namespaces) share one registry: a run
\* that reaches the second of two sources with the same identifier fails
\* there with the duplicate-identifier error, and the top-level identifiers
\* of a successful run are those of its document and pairwise distinct.
C1_DuplicateIdentifierFails ==
  \A r \in 1..Len(runs) :
    LET ids == TopLevelIdentifiers(runs[r].document) IN
    /\ Succeeded(r) =>
         /\ DeclaredNames(runs[r].statements) = ids
         /\ Distinct(ids)
    /\ (Emitted(r) /\ ~Distinct(ids)) =>
         /\ Aborted(r)
         /\ runs[r].calls >= FirstRepeat(ids) => runs[r].err = "DuplicateTypeName"

\* A run failed with the duplicate-identifier error on a document in which
\* an operation and a component schema have the same identifier.
C1_Witness ==
  \E r \in 1..Len(runs) :
    /\ Aborted(r)
    /\ runs[r].err = "DuplicateTypeName"
    /\ runs[r].input = SchemaOperationDocument
    /\ runs[r].calls = FirstRepeat(TopLevelIdentifiers(runs[r].document))

Finished(r) == runs[r].pc \in {"returned", "thrown"}

\* C2: every run starts with an empty identifier registry and ref table:
\* a duplicate-identifier error never comes from an identifier an earlier
\* call reserved, and generate called again on the same document ends as
\* the first call did.
C2_FreshRegistryPerRun ==
  /\ \A r \in 1..Len(runs) :
       (Aborted(r) /\ runs[r].err = "DuplicateTypeName")
         => ~Distinct(TopLevelIdentifiers(runs[r].document))
  /\ \A r1, r2 \in 1..Len(runs) :
       (Finished(r1) /\ Finished(r2) /\ runs[r1].input = runs[r2].input)
         => /\ runs[r1].err = runs[r2].err
            /\ runs[r1].text = runs[r2].text

\* The component paths a document declares.
DeclaredRefs(document) ==
  IF ~Has(document.components) THEN {}
  ELSE UNION {
    LET entries == ComponentEntries(document.components[1], ComponentKeys[k])
    IN IF Has(entries)
         THEN {RefPath(ComponentKeys[k], entries[1][i].name) : i \in 1..Len(entries[1])}
         ELSE {}
    : k \in 1..Len(ComponentKeys)}

MediaSchemas(content) ==
  IF Has(content) THEN {content[1][k].schema : k \in 1..Len(content[1])} ELSE {}

ResponseSchemas(operation) ==
  IF Has(operation.responses)
    THEN UNION {MediaSchemas(operation.responses[1][i].content) :
                  i \in 1..Len(operation.responses[1])}
    ELSE {}

BodySchemas(optBody) ==
  IF Has(optBody) THEN Range(getRequestBodySchemas(optBody[1])) ELSE {}

\* The schemas a successful run hands to createType directly: those of the
\* component schemas, of the component request bodies (the first media
\* type), and of the responses and request body of every operation.
CompiledSchemas(document) ==
  {Some(SchemaEntries(document)[i].schema) : i \in 1..Len(SchemaEntries(document))}
  \cup {First(getRequestBodySchemas(RequestBodyEntries(document)[i].component)) :
          i \in 1..Len(RequestBodyEntries(document))}
  \cup UNION {ResponseSchemas(OperationsOf(document)[i].operation)
                \cup BodySchemas(OperationsOf(document)[i].operation.requestBody) :
              i \in 1..Len(OperationsOf(document))}

\* The references among them.
CompiledRefs(document) ==
  {s[1].ref[1] : s \in {o \in CompiledSchemas(document) : Has(o) /\ isRef(o[1])}}

\* C3: a reference to a component path that the document being generated
\* does not declare aborts the run: no run succeeds on a document in which
\* a compiled schema is such a reference.
C3_UndeclaredRefAborts ==
  \A r \in 1..Len(runs) :
    Succeeded(r) => CompiledRefs(runs[r].document) \subseteq DeclaredRefs(runs[r].document)

RefKey(ref) == ref[2]

RefName(ref) == SubSeq(ref, 4, Len(ref))

\* The position, among the statements of a successful run, of the alias
\* compiled from the component `ref` points to: the aliases follow the
\* header and the imports, schemas first, then request bodies.
ComponentPosition(document, ref) ==
  IF RefKey(ref) = "schemas"
    THEN 2 + (CHOOSE i \in 1..Len(SchemaEntries(document)) :
                SchemaEntries(document)[i].name = RefName(ref))
    ELSE 2 + Len(SchemaEntries(document))
           + (CHOOSE i \in 1..Len(RequestBodyEntries(document)) :
                RequestBodyEntries(document)[i].name = RefName(ref))

\* C4: in a successful run the identifier a $ref resolves to is the name
\* of exactly one top-level type alias of the output, the one compiled
\* from the referenced component.
C4_ResolvedRefIsEmitted ==
  \A r \in 1..Len(runs) :
    Succeeded(r) =>
      \A ref \in CompiledRefs(runs[r].document) \cap DeclaredRefs(runs[r].document) :
        LET id == getTypeNameFromRef([EmptySchema EXCEPT !.ref = Some(ref)], refMap).ty
            out == runs[r].statements
        IN /\ Cardinality({i \in 1..Len(out) :
                             out[i].kind = "type" /\ out[i].name = id}) = 1
           /\ out[ComponentPosition(runs[r].document, ref)].kind = "type"
           /\ out[ComponentPosition(runs[r].document, ref)].name = id

(***************************************************************************)
(* The schema compiler on its own: createType applied to one schema, with  *)
(* the ref table buildRefMap has built from a document that declares Pet   *)
(***************************************************************************)
DeclaredRef == Some(RefPath("schemas", Name_Pet))

UndeclaredRef == Some(RefPath("schemas", Name_Missing))

EnumValues == Some(<<<<"a">>, <<"b">>>>)

\* Schemas over the keywords createType tests one after the other.
KeywordSchemas ==
  {[EmptySchema EXCEPT !.ref = r, !.allOf = a, !.anyOf = b, !.oneOf = c, !.not = n,
                       !.discriminator = d, !.type = t, !.enum = e, !.nullable = u] :
     r \in {None, DeclaredRef, UndeclaredRef, Some(<<>>)},
     a \in {None, Some(<<StringSchema, IntegerSchema>>)},
     b \in {None, Some(<<StringSchema, BooleanSchema>>)},
     c \in {None, Some(<<IntegerSchema, BooleanSchema>>)},
     n \in BOOLEAN, d \in BOOLEAN,
     t \in {"undefined", "string", "integer", "array", "object"},
     e \in {None, EnumValues},
     u \in BOOLEAN}

ScalarSchemas ==
  {[EmptySchema EXCEPT !.type = t, !.format = f, !.enum = e, !.nullable = u,
                       !.deprecated = w, !.default = v] :
     t \in {"boolean", "integer", "number", "string", "null"},
     f \in {None, Some("int64")},
     e \in {None, EnumValues},
     u \in BOOLEAN,
     w \in {"absent", "truthy"},
     v \in {"absent", "falsy"}}

ArraySchemas ==
  {[EmptySchema EXCEPT !.type = "array", !.items = i, !.nullable = u] :
     i \in {None, Some(StringSchema), Some([EmptySchema EXCEPT !.ref = DeclaredRef]),
            Some([StringSchema EXCEPT !.nullable = TRUE]),
            Some([EmptySchema EXCEPT !.type = "array", !.items = Some(IntegerSchema)])},
     u \in BOOLEAN}

AdditionalTrue == [kind |-> "true", schema |-> EmptySchema]

AdditionalFalse == [kind |-> "false", schema |-> EmptySchema]

AdditionalSchema(s) == [kind |-> "schema", schema |-> s]

ObjectSchemas ==
  {[EmptySchema EXCEPT !.type = "object", !.properties = p, !.required = q,
                       !.additionalProperties = a, !.nullable = u] :
     p \in {None, Some(<<>>),
            Some(<<[name |-> IdName, schema |-> IntegerSchema]>>),
            Some(<<[name |-> IdName, schema |-> IntegerSchema],
                   [name |-> Name_pet, schema |-> [EmptySchema EXCEPT !.ref = DeclaredRef]]>>)},
     q \in {{}, {IdName}},
     a \in {None, Some(AdditionalTrue), Some(AdditionalFalse),
            Some(AdditionalSchema(EmptySchema)), Some(AdditionalSchema(IntegerSchema)),
            Some(AdditionalSchema([StringSchema EXCEPT !.nullable = TRUE]))},
     u \in BOOLEAN}

SchemaPool == KeywordSchemas \cup ScalarSchemas \cup ArraySchemas \cup ObjectSchemas

\* The module-level state after a generate call on a document whose only
\* component is the schema Pet.
InitType ==
  /\ createdTypeNames = {Name_Pet}
  /\ refMap = buildRefMap(Document(Components(PetSchemas, None), <<>>), EmptyMap)
  /\ shownWarnings = {}
  /\ console = <<>>
  /\ runs = <<>>
  /\ schema \in SchemaPool
  /\ compiled = None

\* createType(schema) returns or throws.
CompileSchema ==
  /\ compiled = None
  /\ \E result \in {createType(schema, refMap)} :
       /\ compiled' = Some(result)
       /\ shownWarnings' = warn(result.warns, shownWarnings, console).shown
       /\ console' = warn(result.warns, shownWarnings, console).console
  /\ UNCHANGED <<createdTypeNames, refMap, runs, schema>>

NextType == CompileSchema

SpecType == InitType /\ [][NextType]_vars

(***************************************************************************)
(* Reading a compilation                                                   *)
(***************************************************************************)
Compiled == compiled # None

Result == compiled[1]

\* The types of the members of a composition, each compiled on its own.
MemberTypes(schemas) == [i \in 1..Len(schemas) |-> createType(schemas[i], refMap).ty]

IsUnionOf(result, schemas) ==
  result.err = "" /\ result.ty = Join(MemberTypes(schemas), " | ")

IsIntersectionOf(result, schemas) ==
  result.err = "" /\ result.ty = Join(MemberTypes(schemas), " & ")

IsResolved(result, ref) ==
  IF ref \in DOMAIN refMap THEN result.err = "" /\ result.ty = refMap[ref]
  ELSE result.err = "UnknownRef"

Unsupported == {"NotKeyword", "DiscriminatorKeyword"}

Composed(s) == Has(s.allOf) \/ Has(s.anyOf) \/ Has(s.oneOf)

Literals(s) == IF s.type = "string" THEN Wrap(s.enum[1]) ELSE s.enum[1]

\* The result is the one of the case createType takes for a schema that is
\* not a reference, has no composition and no unsupported keyword.
IsByType(result, s) ==
  CASE s.type = "array" -> result.err = "" => result.ty[1] = "Array<"
    [] s.type = "object" -> result.err = "" => result.ty[1] \in {"{", "Record<string, "}
    [] s.type \in {"boolean", "integer", "number", "string"} ->
         /\ result.err = ""
         /\ IF Has(s.enum)
              THEN result.ty = Join(Literals(s) \o (IF s.nullable THEN <<<<"null">>>> ELSE <<>>),
                                    " | ")
              ELSE result.ty[1] = (IF s.type \in {"integer", "number"} THEN "number" ELSE s.type)
    [] OTHER -> result.err = IF Has(s.enum) THEN "UnknownEnumType" ELSE "UnknownScalarType"

\* C5 as stated: the first matching case in the order reference, allOf,
\* anyOf/oneOf, not/discriminator, then the cases by type; a schema with
\* oneOf or anyOf and `not` compiles to the union of its members, and an
\* unsupported-keyword failure needs a schema that is no reference and has
\* no allOf, anyOf or oneOf.
C5_DecisionOrder ==
  Compiled =>
    /\ isRef(schema) => IsResolved(Result, schema.ref[1])
    /\ (~isRef(schema) /\ Has(schema.allOf)) => IsIntersectionOf(Result, schema.allOf[1])
    /\ (~isRef(schema) /\ ~Has(schema.allOf) /\ Has(schema.anyOf))
         => IsUnionOf(Result, schema.anyOf[1])
    /\ (~isRef(schema) /\ ~Has(schema.allOf) /\ ~Has(schema.anyOf) /\ Has(schema.oneOf))
         => IsUnionOf(Result, schema.oneOf[1])
    /\ (~isRef(schema) /\ ~Composed(schema) /\ (schema.not \/ schema.discriminator))
         => Result.err \in Unsupported
    /\ Result.err \in Unsupported => (~isRef(schema) /\ ~Composed(schema))
    /\ (~isRef(schema) /\ ~Composed(schema) /\ ~schema.not /\ ~schema.discriminator)
         => IsByType(Result, schema)

\* C5 amended: createType takes the first matching case in the order
\* reference, allOf, anyOf, not (failure), oneOf, discriminator (failure),
\* then array, object or scalar by type (an enumerated scalar before a plain
\* one): anyOf with `not` compiles to the union, oneOf with `not` and
\* without allOf and anyOf fails, and oneOf hides a discriminator.
C5_DecisionOrder_Amended ==
  Compiled =>
    /\ isRef(schema) => IsResolved(Result, schema.ref[1])
    /\ (~isRef(schema) /\ Has(schema.allOf)) => IsIntersectionOf(Result, schema.allOf[1])
    /\ (~isRef(schema) /\ ~Has(schema.allOf) /\ Has(schema.anyOf))
         => IsUnionOf(Result, schema.anyOf[1])
    /\ (~isRef(schema) /\ ~Has(schema.allOf) /\ ~Has(schema.anyOf) /\ schema.not)
         => Result.err = "NotKeyword"
    /\ (~isRef(schema) /\ ~Has(schema.allOf) /\ ~Has(schema.anyOf) /\ ~schema.not
          /\ Has(schema.oneOf))
         => IsUnionOf(Result, schema.oneOf[1])
    /\ (~isRef(schema) /\ ~Composed(schema) /\ ~schema.not /\ schema.discriminator)
         => Result.err = "DiscriminatorKeyword"
    /\ Result.err = "NotKeyword"
         => (~isRef(schema) /\ ~Has(schema.allOf) /\ ~Has(schema.anyOf) /\ schema.not)
    /\ Result.err = "DiscriminatorKeyword"
         => (~isRef(schema) /\ ~Composed(schema) /\ ~schema.not /\ schema.discriminator)
    /\ (~isRef(schema) /\ ~Composed(schema) /\ ~schema.not /\ ~schema.discriminator)
         => IsByType(Result, schema)

\* oneOf together with `not`, and neither a reference nor allOf nor anyOf:
\* the compilation has failed on `not`.
C5_Witness ==
  /\ Compiled
  /\ ~isRef(schema) /\ ~Has(schema.allOf) /\ ~Has(schema.anyOf)
  /\ Has(schema.oneOf) /\ schema.not
  /\ Result.err = "NotKeyword"

\* C6: a schema of any kind with nullable true compiles to the expression
\* of the same schema without nullable followed by one null union member;
\* without nullable the expression has no null member appended.
C6_NullableOrthogonal ==
  Compiled =>
    LET base == createType([schema EXCEPT !.nullable = FALSE], refMap) IN
    base.err = "" =>
      /\ Result.err = ""
      /\ schema.nullable => Result.ty = base.ty \o <<" | ", "null">>
      /\ ~schema.nullable => Result.ty = base.ty /\ Result.ty[Len(Result.ty)] # "null"

IsObject(s) ==
  /\ ~isRef(s) /\ ~Composed(s) /\ ~s.not /\ ~s.discriminator
  /\ s.type = "object"

Declared(s) == IF Has(s.properties) THEN s.properties[1] ELSE <<>>

\* The members of the declared properties, compiled on their own.
DeclaredMembers(s) ==
  [i \in 1..Len(Declared(s)) |->
     <<"\"">> \o Declared(s)[i].name \o <<"\"">>
       \o (IF Declared(s)[i].name \in s.required THEN <<>> ELSE <<"?">>)
       \o <<": ">> \o createType(Declared(s)[i].schema, refMap).ty]

IsEmptyOrTrue(additionalProperties) ==
  \/ additionalProperties.kind = "true"
  \/ additionalProperties.kind = "schema" /\ additionalProperties.schema = EmptySchema

\* The value type the claim gives the dictionary or the index signature.
ValueType(additionalProperties) ==
  IF IsEmptyOrTrue(additionalProperties) THEN <<"unknown">>
  ELSE createType(additionalProperties.schema, refMap).ty

\* C7: an object schema with additionalProperties set and no declared
\* property compiles to a dictionary whose value type is unconstrained iff
\* additionalProperties is true or an empty schema and is the compiled
\* additionalProperties schema otherwise; with declared properties and
\* additionalProperties true, an empty schema or a non-empty schema, it
\* compiles to the declared members followed by one index signature.
C7_AdditionalProperties ==
  (Compiled /\ IsObject(schema) /\ Has(schema.additionalProperties)) =>
    LET additionalProperties == schema.additionalProperties[1] IN
    IF Len(Declared(schema)) = 0
      THEN /\ Result.err = ""
           /\ (Result.ty = Nullable(schema, <<"Record<string, ", "unknown", ">">>))
                <=> IsEmptyOrTrue(additionalProperties)
           /\ (additionalProperties.kind = "schema" /\ ~IsEmptyOrTrue(additionalProperties))
                => Result.ty = Nullable(schema, <<"Record<string, ">>
                                 \o ValueType(additionalProperties) \o <<">">>)
      ELSE additionalProperties.kind # "false" =>
             /\ Result.err = ""
             /\ Result.ty = Nullable(schema,
                  Braces(Append(DeclaredMembers(schema),
                    <<"[key: string]: ">> \o ValueType(additionalProperties))))

(***************************************************************************)
(* One generate call in a fresh process, on a document with one operation  *)
(***************************************************************************)
MaxResponses == 2

\* Status codes whose keys are canonical array indices: Object.entries
\* lists them first, in ascending numeric order.
IntegerStatusCodes == <<Status200, Status204, Status301, Status404, Status500>>

\* The other keys follow in the order they were inserted.
StringStatusCodes == {DefaultStatus, Status2XX}

IntegerRank(statusCode) ==
  CHOOSE i \in 1..Len(IntegerStatusCodes) : IntegerStatusCodes[i] = statusCode

TwoMediaTypes ==
  Some(<<[mediaType |-> "application/json", schema |-> Some(StringSchema)],
         [mediaType |-> "application/xml", schema |-> Some(IntegerSchema)]>>)

ResponseEntries ==
  {Response(statusCode, content) :
     statusCode \in Range(IntegerStatusCodes) \cup StringStatusCodes,
     content \in {None, Json(BooleanSchema), TwoMediaTypes}}

\* The entries of an object in the order Object.entries lists them: keys
\* are distinct, integer keys ascending, then the string keys.
IsEntriesOrder(responses) ==
  \A i, j \in 1..Len(responses) :
    i < j =>
      /\ responses[i].statusCode # responses[j].statusCode
      /\ responses[j].statusCode \in Range(IntegerStatusCodes) =>
           /\ responses[i].statusCode \in Range(IntegerStatusCodes)
           /\ IntegerRank(responses[i].statusCode) < IntegerRank(responses[j].statusCode)

ResponseLists ==
  UNION {{responses \in [1..n -> ResponseEntries] : IsEntriesOrder(responses)} :
           n \in 0..MaxResponses}

AllLocations == <<PathLoc, QueryLoc, HeaderLoc, CookieLoc>>

\* One required string parameter `id` for each location of `locations`.
RECURSIVE ParametersIn(_, _)
ParametersIn(locations, i) ==
  IF i > Len(AllLocations) THEN <<>>
  ELSE (IF AllLocations[i] \in locations
          THEN <<Parameter(AllLocations[i], IdName, StringSchema, "true")>> ELSE <<>>)
         \o ParametersIn(locations, i + 1)

\* A document with the one operation `method` /pet/{id}: the path
\* parameter is shared by the path item, the others are the operation's.
OperationDocument(method, locations, requestBody, responses) ==
  Document(None,
    <<[path |-> PetIdPath,
       operations |->
         Item(Some(ParametersIn(locations \cap {PathLoc}, 1)),
              <<[method |-> method,
                 operation |-> Op(None, Some(ParametersIn(locations \ {PathLoc}, 1)),
                                  requestBody, responses)]>>)]>>)

EndpointDocuments ==
  {OperationDocument(method, locations, requestBody, responses) :
     method \in {GET, POST},
     locations \in SUBSET Range(AllLocations),
     requestBody \in {None, Some(InlineBody(StringSchema))},
     responses \in {None, OkResponse(StringSchema)}}

ResponseDocuments ==
  {OperationDocument(GET, {}, None, Some(responses)) : responses \in ResponseLists}

\* GET /pet/{id} whose path item and operation both declare a parameter
\* `id` in `location`; the path item declares `tag` after it.
OverrideDocuments ==
  {Document(None,
     <<[path |-> PetIdPath,
        operations |->
          Item(Some(<<Parameter(location, IdName, shared, sharedRequired),
                      Parameter(location, Name_Tag, BooleanSchema, "true")>>),
               <<[method |-> GET,
                  operation |-> Op(None, Some(<<Parameter(location, IdName, own, ownRequired)>>),
                                   None, OkResponse(StringSchema))]>>)]>>) :
     location \in {PathLoc, QueryLoc},
     shared \in {StringSchema, IntegerSchema},
     own \in {StringSchema, IntegerSchema, BooleanSchema},
     sharedRequired \in {"absent", "true", "false"},
     ownRequired \in {"absent", "true", "false"}}

OperationDocuments == EndpointDocuments \cup ResponseDocuments \cup OverrideDocuments

\* The host has called generate({ openApiDocument }) once.
InitOne ==
  /\ createdTypeNames = {}
  /\ refMap = EmptyMap
  /\ shownWarnings = {}
  /\ console = <<>>
  /\ runs \in {<<NewRun(openApiDocument)>> : openApiDocument \in OperationDocuments}
  /\ schema = EmptySchema
  /\ compiled = None

NextOne ==
  \/ \E r \in 1..Len(runs) : PreProcess(r)
  \/ \E r \in 1..Len(runs) : Validate(r)
  \/ \E r \in 1..Len(runs) : Compile(r)
  \/ \E r \in 1..Len(runs) : Format(r)

SpecOne == InitOne /\ [][NextOne]_vars

(***************************************************************************)
(* Reading the output of a run on a document with one operation            *)
(***************************************************************************)
\* The operation of the document of run r.
TheOperation(r) == OperationsOf(runs[r].document)[1].operation

\* The namespace and the endpoint emitted for it.
TheNamespace(r) ==
  runs[r].statements[CHOOSE i \in 1..Len(runs[r].statements) :
                       runs[r].statements[i].kind = "namespace"]

TheEndpoint(r) ==
  runs[r].statements[CHOOSE i \in 1..Len(runs[r].statements) :
                       runs[r].statements[i].kind = "endpoint"]

Children(fragment, kind) ==
  {fragment.children[i] : i \in {j \in 1..Len(fragment.children) :
                                   fragment.children[j].kind = kind}}

\* The body of the alias `name` of the Response namespace of `namespace`.
ResponseAlias(namespace, name) ==
  LET response == CHOOSE c \in Children(namespace, "namespace") : c.name = ResponseName
  IN (CHOOSE c \in Children(response, "type") : c.name = name).body

InSuccessGroup(statusCode) == statusCode[1] = "2"

InErrorGroup(statusCode) == statusCode = DefaultStatus \/ statusCode[1] \in {"4", "5"}

\* What one entry contributes: the placeholder without content, else one
\* compiled type per media type.
Contribution(response, placeholder) ==
  IF ~Has(response.content) THEN <<<<placeholder>>>>
  ELSE [k \in 1..Len(response.content[1]) |->
          createType(response.content[1][k].schema[1], EmptyMap).ty]

\* The union of the contributions of the entries of one group, in order.
GroupUnion(responses, success, placeholder) ==
  LET members ==
        Flatten([i \in 1..Len(responses) |->
          IF (IF success THEN InSuccessGroup(responses[i].statusCode)
                         ELSE InErrorGroup(responses[i].statusCode))
            THEN Contribution(responses[i], placeholder) ELSE <<>>])
  IN IF Len(members) = 0 THEN <<placeholder>> ELSE Join(members, " | ")

\* C8: for an operation that declares responses, Response.Success is the
\* union, in the order of the entries, of the contributions of exactly the
\* entries whose status code starts with 2, and Response.Error of exactly
\* those with status code default, 4.. or 5..; an entry without content
\* contributes void resp. unknown, an empty group is void resp. unknown, and
\* entries with other status codes contribute to neither.
C8_ResponseGroups ==
  \A r \in 1..Len(runs) :
    (Succeeded(r) /\ Has(TheOperation(r).responses)) =>
      /\ ResponseAlias(TheNamespace(r), SuccessName)
           = GroupUnion(TheOperation(r).responses[1], TRUE, "void")
      /\ ResponseAlias(TheNamespace(r), ErrorName)
           = GroupUnion(TheOperation(r).responses[1], FALSE, "unknown")

\* A successful run on responses 301 with content and `default` without:
\* Success is void, Error is unknown.
C8_Witness ==
  \E r \in 1..Len(runs) :
    /\ Succeeded(r) /\ Has(TheOperation(r).responses)
    /\ TheOperation(r).responses[1]
         = <<Response(Status301, TwoMediaTypes), Response(DefaultStatus, None)>>
    /\ ResponseAlias(TheNamespace(r), SuccessName) = <<"void">>
    /\ ResponseAlias(TheNamespace(r), ErrorName) = <<"unknown">>

\* The locations of the parameters of the path item and of the operation.
UsedLocations(r) ==
  LET entry == OperationsOf(runs[r].document)[1]
      own == IF Has(entry.operation.parameters) THEN entry.operation.parameters[1] ELSE <<>>
  IN {parameter.in : parameter \in Range(entry.shared) \cup Range(own)}

\* The names of the parameter groups declared in the namespace.
ParameterGroups(namespace) ==
  {c.name : c \in Children(namespace, "type")} \ {RequestBodyName}

\* The namespace members that type the arguments of the callable before
\* the trailing one, in order.
ArgumentTypes(callable) ==
  [i \in 1..(Len(callable.params) - 1) |-> callable.params[i].types[1].path[1]]

IsRequestOptions(param, typeName) ==
  /\ param.name = "requestOptions" /\ param.optional
  /\ param.generic = "RequestOptions"
  /\ param.types = <<Member(typeName, <<ResponseName, SuccessName>>)>>

\* C9 as stated: the callable takes one typed argument for each parameter
\* group of the operation's namespace (path, query, header, cookie) and
\* one for the request body iff one is declared, then the options argument.
C9_ArgumentPerGroup ==
  \A r \in 1..Len(runs) :
    Succeeded(r) =>
      LET callable == TheEndpoint(r).callable
          groups == ParameterGroups(TheNamespace(r))
                      \cup (IF Has(TheOperation(r).requestBody)
                              THEN {RequestBodyName} ELSE {})
      IN /\ Range(ArgumentTypes(callable)) = groups
         /\ Len(ArgumentTypes(callable)) = Cardinality(groups)
         /\ IsRequestOptions(callable.params[Len(callable.params)], TheNamespace(r).name)

\* C9 amended: the callable takes, in this order, one typed argument for
\* the path group and one for the query group when the namespace declares
\* them, one for the request body iff one is declared, then the options
\* argument; header and cookie groups are declared in the namespace but get
\* no argument; a callable of a method other than get takes these as the
\* elements of one tuple.
C9_ArgumentPerGroup_Amended ==
  \A r \in 1..Len(runs) :
    Succeeded(r) =>
      LET callable == TheEndpoint(r).callable
          groups == ParameterGroups(TheNamespace(r))
      IN /\ ArgumentTypes(callable)
              = (IF PathParametersName \in groups THEN <<PathParametersName>> ELSE <<>>)
                  \o (IF QueryParametersName \in groups THEN <<QueryParametersName>> ELSE <<>>)
                  \o (IF Has(TheOperation(r).requestBody) THEN <<RequestBodyName>> ELSE <<>>)
         /\ \A i \in 1..(Len(callable.params) - 1) :
              /\ callable.params[i].types[1].ns = TheNamespace(r).name
              /\ ~callable.params[i].optional
         /\ IsRequestOptions(callable.params[Len(callable.params)], TheNamespace(r).name)
         /\ callable.tuple <=> OperationsOf(runs[r].document)[1].method # GET
         /\ groups = {toPascalCase(location \o ParametersSuffix) :
                        location \in UsedLocations(r)}

\* A successful run on an operation with path and header parameters: the
\* namespace declares both groups, the callable takes the path group only.
C9_Witness ==
  \E r \in 1..Len(runs) :
    /\ Succeeded(r)
    /\ UsedLocations(r) = {PathLoc, HeaderLoc}
    /\ ParameterGroups(TheNamespace(r))
         = {PathParametersName, toPascalCase(HeaderLoc \o ParametersSuffix)}
    /\ ArgumentTypes(TheEndpoint(r).callable) = <<PathParametersName>>

\* The namespace members the callable and the hook of an endpoint refer to.
ParamMembers(params) == UNION {Range(params[i].types) : i \in 1..Len(params)}

ReferredMembers(endpoint) ==
  ParamMembers(endpoint.callable.params) \cup {endpoint.callable.returns}
    \cup ParamMembers(endpoint.hook.params) \cup ParamMembers(endpoint.hook.variables)
    \cup Range(endpoint.hook.returns)

\* The member is declared in the namespace: T.A is a type alias of T, T.A.B
\* a type alias of the namespace A of T.
IsDeclaredIn(member, namespace) ==
  /\ member.ns = namespace.name
  /\ IF Len(member.path) = 1
       THEN \E c \in Children(namespace, "type") : c.name = member.path[1]
       ELSE \E n \in Children(namespace, "namespace") :
              /\ n.name = member.path[1]
              /\ \E c \in Children(n, "type") : c.name = member.path[2]

\* C10: in a successful run every namespace member the callable or the
\* hook of an operation refers to is declared in the namespace emitted for
\* that operation, also when the operation declares no responses.
C10_ReferredMembersDeclared ==
  \A r \in 1..Len(runs) :
    Succeeded(r) =>
      \A member \in ReferredMembers(TheEndpoint(r)) :
        IsDeclaredIn(member, TheNamespace(r))

(***************************************************************************)
(* The command-line tool create-openapi-client: main calls generate once   *)
(* in a fresh process and writes the text it returns to the output file    *)
(***************************************************************************)
NotSchema == [StringSchema EXCEPT !.not = TRUE]

DiscriminatorSchema == [EmptySchema EXCEPT !.type = "object", !.discriminator = TRUE]

UnknownTypeSchema == [EmptySchema EXCEPT !.type = "null"]

\* The schema Pet, then the schema Tag, used by GET /pet.
SchemaDocument(tag) ==
  Document(Components(Some(<<[name |-> Name_Pet, schema |-> StringSchema],
                             [name |-> Name_Tag, schema |-> tag]>>), None),
    <<[path |-> PetPath,
       operations |-> Item(None, <<[method |-> GET,
         operation |-> Op(Some(Name_getPet), None, None,
                          OkResponse(RefSchema("schemas", Name_Tag)))]>>)]>>)

\* The schema Pet and GET /pet, whose 200 response has the schema `body`,
\* on the path item `item`.
ResponseDocument(body, item) ==
  Document(Components(PetSchemas, None),
    <<[path |-> PetPath,
       operations |-> [item EXCEPT !.entries = <<[method |-> GET,
         operation |-> Op(Some(Name_getPet), None, None, OkResponse(body))]>>]]>>)

FatalKinds ==
  {"UnknownRef", "DuplicateTypeName", "NotKeyword", "DiscriminatorKeyword",
   "ComponentsParameters", "ComponentsResponses", "PathItemRef", "PerEndpointServers",
   "UnknownScalarType", "Validation"}

\* A document that is well-formed up to one construct of the kind `kind`,
\* which comes after the schema Pet.
FatalDocument(kind) ==
  CASE kind = "UnknownRef" ->
         ResponseDocument(RefSchema("schemas", Name_Missing), Item(None, <<>>))
    [] kind = "DuplicateTypeName" -> SchemaOperationDocument
    [] kind = "NotKeyword" -> SchemaDocument(NotSchema)
    [] kind = "DiscriminatorKeyword" ->
         ResponseDocument(DiscriminatorSchema, Item(None, <<>>))
    [] kind = "ComponentsParameters" -> ComponentParametersDocument
    [] kind = "ComponentsResponses" ->
         [Document(None, <<>>) EXCEPT
            !.components = Some([schemas |-> PetSchemas, parameters |-> None,
                                 requestBodies |-> None,
                                 responses |-> Some(<<[name |-> Name_Tag]>>)])]
    [] kind = "PathItemRef" ->
         ResponseDocument(StringSchema,
                          [Item(None, <<>>) EXCEPT !.ref = Some(<<"#", "/", "x">>)])
    [] kind = "PerEndpointServers" ->
         ResponseDocument(StringSchema, [Item(None, <<>>) EXCEPT !.servers = TRUE])
    [] kind = "UnknownScalarType" -> SchemaDocument(UnknownTypeSchema)
    [] kind = "Validation" -> UnversionedDocument

CliSchemas ==
  {StringSchema, NotSchema, DiscriminatorSchema, UnknownTypeSchema,
   RefSchema("schemas", Name_Pet), RefSchema("schemas", Name_Missing),
   [EmptySchema EXCEPT !.type = "array", !.items = Some(NotSchema)],
   [EmptySchema EXCEPT !.anyOf = Some(<<StringSchema, IntegerSchema>>), !.not = TRUE]}

\* The first schema fails on `not`; a schema and a request body are
\* declared after it.
EarlyAbortDocument ==
  Document(Components(Some(<<[name |-> Name_Pet, schema |-> NotSchema],
                             [name |-> Name_Tag, schema |-> RefSchema("schemas", Name_Pet)]>>),
                      Some(<<[name |-> Name_Pet, component |-> InlineBody(StringSchema)]>>)),
           <<>>)

\* Documents with several schemas, request bodies, paths and methods, in
\* either order.
NameOrders == {<<Name_Pet, Name_Tag>>, <<Name_Tag, Name_Pet>>}

PathOrders == {<<PetPath, TagPath>>, <<TagPath, PetPath>>}

MethodOrders == {<<POST, GET>>, <<GET, POST>>, <<PUT, <<"h", "e", "a", "d">>, DELETE>>}

LayoutItem(methods, described) ==
  [Item(None, [j \in 1..Len(methods) |->
     [method |-> methods[j],
      operation |-> [Op(None, None, None, OkResponse(StringSchema))
                       EXCEPT !.described = described]]])
   EXCEPT !.described = described]

LayoutDocument(schemas, bodies, paths, first, second, described) ==
  Document(
    Components(Some([i \in 1..Len(schemas) |-> [name |-> schemas[i], schema |-> StringSchema]]),
               Some([i \in 1..Len(bodies) |->
                       [name |-> bodies[i], component |-> InlineBody(IntegerSchema)]])),
    <<[path |-> paths[1], operations |-> LayoutItem(first, described)],
      [path |-> paths[2], operations |-> LayoutItem(second, ~described)]>>)

LayoutDocuments ==
  {LayoutDocument(schemas, bodies, paths, first, second, described) :
     schemas \in NameOrders, bodies \in NameOrders \cup {<<>>}, paths \in PathOrders,
     first \in MethodOrders, second \in MethodOrders, described \in BOOLEAN}

\* An operation named pet and an operation named usePet.
HookClashDocument ==
  Document(None,
    <<[path |-> PetPath,
       operations |-> Item(None, <<
         [method |-> GET,
          operation |-> Op(Some(Name_pet), None, None, OkResponse(StringSchema))],
         [method |-> POST,
          operation |-> Op(Some(Name_usePet), None, None, OkResponse(StringSchema))]>>)]>>)

CliDocuments ==
  Documents \cup LayoutDocuments \cup {EarlyAbortDocument, HookClashDocument} \cup {FatalDocument(kind) : kind \in FatalKinds}
    \cup {SchemaDocument(s) : s \in CliSchemas}
    \cup {ResponseDocument(s, Item(None, <<>>)) : s \in CliSchemas}

\* main has parsed the input and calls generate.
InitCli ==
  /\ createdTypeNames = {}
  /\ refMap = EmptyMap
  /\ shownWarnings = {}
  /\ console = <<>>
  /\ runs \in {<<NewRun(openApiDocument)>> : openApiDocument \in CliDocuments}
  /\ schema = EmptySchema
  /\ compiled = None

\* main's catch around `await generate(...)`: log.error and return.
LogError(r) ==
  /\ runs[r].pc = "thrown"
  /\ runs' = [runs EXCEPT ![r].pc = "logged"]
  /\ UNCHANGED <<createdTypeNames, refMap, shownWarnings, console, schema, compiled>>

\* main's fs.writeFile(absolutePath, client): it writes the text generate
\* returned, or fails and main logs the failure.
WriteFile(r) ==
  /\ runs[r].pc = "returned"
  /\ \/ runs' = [runs EXCEPT ![r].pc = "written", ![r].file = runs[r].text]
     \/ runs' = [runs EXCEPT ![r].pc = "logged", ![r].err = "WriteFailed"]
  /\ UNCHANGED <<createdTypeNames, refMap, shownWarnings, console, schema, compiled>>

NextCli ==
  \/ \E r \in 1..Len(runs) : PreProcess(r)
  \/ \E r \in 1..Len(runs) : Validate(r)
  \/ \E r \in 1..Len(runs) : Compile(r)
  \/ \E r \in 1..Len(runs) : Format(r)
  \/ \E r \in 1..Len(runs) : WriteFile(r)
  \/ \E r \in 1..Len(runs) : LogError(r)

SpecCli == InitCli /\ [][NextCli]_vars

\* generate has thrown.
HasThrown(r) == runs[r].pc = "thrown" \/ (runs[r].pc = "logged" /\ runs[r].err # "WriteFailed")

\* C11: a fatal condition aborts the whole run where it is detected: a
\* document with a construct of a fatal kind never gets past the synchronous
\* part of generate and throws the error of that kind; a run that has
\* thrown has returned no text and main has written no file; a text that is
\* returned declares every identifier of the document, and the file is
\* that text.
C11_FatalAbortsWholeRun ==
  \A r \in 1..Len(runs) :
    /\ \A kind \in FatalKinds :
         runs[r].input = FatalDocument(kind) =>
           /\ runs[r].pc \in {"preProcess", "validate", "statements", "thrown", "logged"}
           /\ runs[r].pc \in {"thrown", "logged"} => runs[r].err = kind
           /\ kind = "Validation" => runs[r].pc # "statements"
    /\ HasThrown(r) =>
         /\ runs[r].err # ""
         /\ runs[r].text = None /\ runs[r].file = None /\ runs[r].statements = <<>>
    /\ Has(runs[r].text) =>
         /\ runs[r].err \in {"", "WriteFailed"}
         /\ DeclaredNames(runs[r].text[1]) = TopLevelIdentifiers(runs[r].document)
    /\ Has(runs[r].file) => (runs[r].pc = "written" /\ runs[r].file = runs[r].text)

\* main has logged the error of a run that compiled the schema Pet and
\* then met `not` in the schema Tag: Pet is reserved, nothing is returned
\* or written.
C11_Witness ==
  \E r \in 1..Len(runs) :
    /\ runs[r].input = FatalDocument("NotKeyword")
    /\ runs[r].pc = "logged" /\ runs[r].err = "NotKeyword"
    /\ Name_Pet \in createdTypeNames
    /\ runs[r].text = None /\ runs[r].file = None

(***************************************************************************)
(* A sequence of createType calls in one process: shownWarnings and the    *)
(* console are kept from one call to the next                              *)
(***************************************************************************)
WarnedKeywords == {"deprecated", "default", "readOnly", "writeOnly", "xml"}

\* A string schema with the keyword `key` set to a truthy or a falsy value
\* (deprecated: true or false, default: "x" or "", ...).
Keyworded(key, value) == [StringSchema EXCEPT ![key] = value]

\* The places a schema with a keyword is compiled at: on its own, as a
\* property, as the items of an array, next to allOf.
Placed(s, place) ==
  CASE place = "schema" -> s
    [] place = "property" ->
         [EmptySchema EXCEPT !.type = "object",
                             !.properties = Some(<<[name |-> IdName, schema |-> s]>>)]
    [] place = "items" -> [EmptySchema EXCEPT !.type = "array", !.items = Some(s)]
    [] place = "allOf" -> [s EXCEPT !.allOf = Some(<<IntegerSchema, BooleanSchema>>)]

Places == {"schema", "property", "items", "allOf"}

KeywordSchemas_Warned ==
  {Placed(Keyworded(key, value), place) :
     key \in WarnedKeywords, value \in {"truthy", "falsy"}, place \in Places}
  \cup {StringSchema,
        Placed([StringSchema EXCEPT !.deprecated = "truthy", !.default = "truthy",
                                    !.readOnly = "truthy", !.writeOnly = "truthy",
                                    !.xml = "truthy"], "property")}

InitWarn ==
  /\ createdTypeNames = {}
  /\ refMap = EmptyMap
  /\ shownWarnings = {}
  /\ console = <<>>
  /\ runs = <<>>
  /\ schema \in KeywordSchemas_Warned
  /\ compiled = None

\* createType is called with the next schema.
CallCreateType(s) ==
  /\ compiled # None
  /\ schema' = s
  /\ compiled' = None
  /\ UNCHANGED <<createdTypeNames, refMap, shownWarnings, console, runs>>

NextWarn ==
  \/ CompileSchema
  \/ \E s \in KeywordSchemas_Warned : CallCreateType(s)

SpecWarn == InitWarn /\ [][NextWarn]_vars

\* The schema and the schemas compiled with it.
SchemasOf(s) ==
  {s} \cup (IF Has(s.items) THEN {s.items[1]} ELSE {})
      \cup (IF Has(s.properties)
              THEN {s.properties[1][i].schema : i \in 1..Len(s.properties[1])} ELSE {})
      \cup (IF Has(s.allOf) THEN Range(s.allOf[1]) ELSE {})

IsPresent(key, s) == \E t \in SchemasOf(s) : t[key] # "absent"

Unkeyworded(s) ==
  [s EXCEPT !.deprecated = "absent", !.default = "absent", !.readOnly = "absent",
            !.writeOnly = "absent", !.xml = "absent"]

\* The schema with the five keywords removed, here and one level below.
Stripped(s) ==
  [Unkeyworded(s) EXCEPT
     !.items = IF Has(s.items) THEN Some(Unkeyworded(s.items[1])) ELSE None,
     !.properties =
       IF Has(s.properties)
         THEN Some([i \in 1..Len(s.properties[1]) |->
                      [name |-> s.properties[1][i].name,
                       schema |-> Unkeyworded(s.properties[1][i].schema)]])
         ELSE None]

\* C12: over a sequence of compilations each of the keywords deprecated,
\* default, readOnly, writeOnly, xml is warned about at most once in total,
\* and has been warned about once a schema it is present on was compiled;
\* the compilation does not fail and gives the type expression of the
\* schema without the keywords.
C12_WarnOncePerKeyword ==
  /\ Distinct(console)
  /\ Range(console) \subseteq WarnedKeywords
  /\ Compiled =>
       /\ \A key \in WarnedKeywords : IsPresent(key, schema) => key \in Range(console)
       /\ Result.err = ""
       /\ Result.ty = createType(Stripped(schema), refMap).ty

(***************************************************************************)
(* Reading the parameter groups of an operation                            *)
(***************************************************************************)
\* The parameters of the path item followed by those of the operation.
AllParameters(r) ==
  LET entry == OperationsOf(runs[r].document)[1]
  IN entry.shared \o (IF Has(entry.operation.parameters)
                        THEN entry.operation.parameters[1] ELSE <<>>)

InLocation(parameters, location) ==
  SelectSeq(parameters, LAMBDA parameter : parameter.in = location)

\* The body of the alias of the group of `location` in the namespace.
GroupAlias(r, location) ==
  (CHOOSE c \in Children(TheNamespace(r), "type") :
     c.name = toPascalCase(location \o ParametersSuffix)).body

Member_Of(name, required, type) ==
  <<"\"">> \o name \o <<"\"">> \o (IF required THEN <<>> ELSE <<"?">>) \o <<": ">> \o type

\* A path-level and an operation-level parameter have the same name and
\* the same location.
HasCollision(r) ==
  LET entry == OperationsOf(runs[r].document)[1] IN
  /\ Has(entry.operation.parameters)
  /\ \E i \in 1..Len(entry.shared), j \in 1..Len(entry.operation.parameters[1]) :
       /\ entry.shared[i].name = entry.operation.parameters[1][j].name
       /\ entry.shared[i].in = entry.operation.parameters[1][j].in

\* C13 as stated: the two lists are concatenated without deduplication and
\* the object type of a location has one member for every parameter of the
\* location, so two for a name declared at both levels.
C13_BothMembersEmitted ==
  \A r \in 1..Len(runs) :
    Succeeded(r) =>
      \A location \in UsedLocations(r) :
        LET group == InLocation(AllParameters(r), location) IN
        GroupAlias(r, location)
          = Braces([i \in 1..Len(group) |->
                      Member_Of(group[i].name, group[i].required # "false",
                                createType(group[i].schema, EmptyMap).ty)])

\* C13 amended: the object type of a location has one member for every
\* parameter name of the location, at the place of the name's first
\* parameter and typed by the schema of its last one, so the
\* operation-level parameter replaces the path-level one of the same name;
\* the member is required unless every parameter of that name has
\* required: false.
C13_LastParameterWins ==
  \A r \in 1..Len(runs) :
    Succeeded(r) =>
      \A location \in UsedLocations(r) :
        LET group == InLocation(AllParameters(r), location)
            firsts == {i \in 1..Len(group) :
                         \A j \in 1..(i - 1) : group[j].name # group[i].name}
            \* the index of the k-th first occurrence
            First_At(k) == CHOOSE i \in firsts : Cardinality({j \in firsts : j <= i}) = k
            Last_Of(name) == CHOOSE i \in 1..Len(group) :
                               /\ group[i].name = name
                               /\ \A j \in (i + 1)..Len(group) : group[j].name # name
        IN GroupAlias(r, location)
             = Braces([k \in 1..Cardinality(firsts) |->
                         Member_Of(group[First_At(k)].name,
                                   \E i \in 1..Len(group) :
                                     /\ group[i].name = group[First_At(k)].name
                                     /\ group[i].required # "false",
                                   createType(group[Last_Of(group[First_At(k)].name)].schema,
                                              EmptyMap).ty)])

\* The path item declares the query parameter id as a string and the
\* operation declares it again as an optional integer: the one member id
\* is a number, in front of tag, and still required.
C13_Witness ==
  \E r \in 1..Len(runs) :
    /\ Succeeded(r) /\ HasCollision(r)
    /\ AllParameters(r) = <<Parameter(QueryLoc, IdName, StringSchema, "absent"),
                            Parameter(QueryLoc, Name_Tag, BooleanSchema, "true"),
                            Parameter(QueryLoc, IdName, IntegerSchema, "false")>>
    /\ GroupAlias(r, QueryLoc)
         = Braces(<<Member_Of(IdName, TRUE, <<"number">>),
                    Member_Of(Name_Tag, TRUE, <<"boolean">>)>>)

(***************************************************************************)
(* Reading the references of a document                                    *)
(***************************************************************************)
RECURSIVE RefsIn(_)
\* The references of a schema and of the schemas nested in it.
RefsIn(s) ==
  IF isRef(s) THEN {s.ref[1]}
  ELSE UNION ({RefsIn(t) : t \in
                 (IF Has(s.items) THEN {s.items[1]} ELSE {})
                   \cup (IF Has(s.properties)
                           THEN {s.properties[1][i].schema : i \in 1..Len(s.properties[1])}
                           ELSE {})
                   \cup (IF Has(s.allOf) THEN Range(s.allOf[1]) ELSE {})
                   \cup (IF Has(s.anyOf) THEN Range(s.anyOf[1]) ELSE {})
                   \cup (IF Has(s.oneOf) THEN Range(s.oneOf[1]) ELSE {})
                   \cup (IF Has(s.additionalProperties)
                              /\ s.additionalProperties[1].kind = "schema"
                           THEN {s.additionalProperties[1].schema} ELSE {})})

\* Every reference of the schemas a run on the document compiles.
AllRefs(document) ==
  UNION {RefsIn(o[1]) : o \in {c \in CompiledSchemas(document) : Has(c)}}

\* The paths of the components the document declares under the four keys.
DeclaredPaths(document) ==
  IF ~Has(document.components) THEN {}
  ELSE LET components == document.components[1]
           Paths_Of(key, entries) ==
             IF Has(entries)
               THEN {<<"#/components/", key, "/">> \o entries[1][i].name :
                       i \in 1..Len(entries[1])}
               ELSE {}
       IN Paths_Of("schemas", components.schemas)
            \cup Paths_Of("parameters", components.parameters)
            \cup Paths_Of("requestBodies", components.requestBodies)
            \cup Paths_Of("responses", components.responses)

\* C14: once a run is past validation the ref table has one entry for
\* every declared component schema, parameter, request body and response,
\* also when the run failed on the first schema body; so a run whose
\* references all point to declared components never fails on an unknown
\* reference, whatever the order of declaration.
C14_RefTableBuiltFirst ==
  \A r \in 1..Len(runs) :
    Emitted(r) =>
      /\ DOMAIN refMap = DeclaredPaths(runs[r].document)
      /\ \A ref \in DeclaredPaths(runs[r].document) :
           refMap[ref] = toPascalCase(SubSeq(ref, 4, Len(ref)))
      /\ AllRefs(runs[r].document) \subseteq DeclaredPaths(runs[r].document)
           => runs[r].err # "UnknownRef"

\* Pet refers to Tag, declared after it, and Tag to itself: the run has
\* succeeded and the alias Pet is Tag.
C14_Witness ==
  \E r \in 1..Len(runs) :
    /\ runs[r].input = ForwardDocument /\ Succeeded(r)
    /\ \E i \in 1..Len(runs[r].statements) :
         /\ runs[r].statements[i].kind = "type"
         /\ runs[r].statements[i].name = Name_Pet
         /\ runs[r].statements[i].body = Name_Tag

\* The run failed on the body of the first schema, and the table holds the
\* entries of the schema and the request body declared after it.
C14_EarlyAbort ==
  \E r \in 1..Len(runs) :
    /\ runs[r].input = EarlyAbortDocument /\ Aborted(r)
    /\ runs[r].err = "NotKeyword" /\ runs[r].calls = 1
    /\ RefPath("schemas", Name_Tag) \in DOMAIN refMap
    /\ RefPath("requestBodies", Name_Pet) \in DOMAIN refMap

(***************************************************************************)
(* The order of the steps of a run                                         *)
(***************************************************************************)
\* The openapi field is a string that begins with 3.
IsVersion3(document) == Has(document.openapi) /\ SubSeq(document.openapi[1], 1, 1) = <<"3">>

\* What swagger2openapi returns for a 2.0 document, the document itself
\* otherwise.
Upgraded(document) ==
  IF document.swagger = Some(<<"2", ".", "0">>)
    THEN [document EXCEPT !.swagger = None, !.openapi = Some(<<"3", ".", "0", ".", "3">>)]
    ELSE document

BeforeCompile(r) == runs[r].pc \in {"preProcess", "validate"}

\* C15: preProcess completes before validate starts, validate is applied
\* to the document preProcess returned, and until both have completed the
\* run reserves no identifier, writes no ref-table entry and produces no
\* fragment; a run whose validation fails stops there, with the registry
\* and the ref table as they were and no generator hook called.
C15_PreProcessThenValidate ==
  [][\A r \in 1..Len(runs) :
       /\ (runs[r].pc = "preProcess" /\ runs'[r] # runs[r]) =>
            /\ runs'[r].pc = "validate"
            /\ runs'[r].document = Upgraded(runs[r].input)
       /\ (runs[r].pc = "validate" /\ runs'[r] # runs[r]) =>
            /\ runs'[r].document = runs[r].document
            /\ IF IsVersion3(Upgraded(runs[r].input))
                 THEN runs'[r].pc = "statements" /\ runs'[r].err = ""
                 ELSE runs'[r].pc = "thrown" /\ runs'[r].err = "Validation"
       /\ (BeforeCompile(r) /\ runs'[r] # runs[r]) =>
            /\ UNCHANGED <<createdTypeNames, refMap, shownWarnings, console>>
            /\ runs'[r].statements = <<>> /\ runs'[r].calls = 0 /\ runs'[r].text = None
       /\ (runs[r].pc = "thrown" /\ runs[r].err = "Validation") => runs'[r] = runs[r]
       /\ (createdTypeNames' # createdTypeNames \/ refMap' # refMap) =>
            \E q \in 1..Len(runs) : runs[q].pc = "statements" /\ runs'[q].pc # "statements"
    ]_vars

\* The validation of a document without an openapi field has failed: its
\* schema Pet is neither reserved nor in the ref table, nothing was produced.
C15_Witness ==
  \E r \in 1..Len(runs) :
    /\ runs[r].input = UnversionedDocument
    /\ Aborted(r) /\ runs[r].err = "Validation"
    /\ createdTypeNames = {} /\ refMap = EmptyMap
    /\ runs[r].statements = <<>> /\ runs[r].calls = 0 /\ runs[r].text = None

(***************************************************************************)
(* The order of the fragments of an output                                 *)
(***************************************************************************)
Shape(fragment) == <<fragment.kind, fragment.name>>

Shapes(statements) == [i \in 1..Len(statements) |-> Shape(statements[i])]

IsNotComment(fragment) == fragment.kind # "comment"

\* The declarations a document asks for, in document order.
Layout(document) ==
  <<<<"imports", <<>>>>>>
  \o [i \in 1..Len(SchemaEntries(document)) |->
        <<"type", toPascalCase(SchemaEntries(document)[i].name)>>]
  \o [i \in 1..Len(RequestBodyEntries(document)) |->
        <<"type", toPascalCase(RequestBodyEntries(document)[i].name \o RequestBodySuffix)>>]
  \o <<<<"request", <<"request">>>>>>
  \o Flatten([k \in 1..Len(OperationsOf(document)) |->
       LET op == OperationsOf(document)[k]
       IN <<<<"namespace", toPascalCase(OpName(op.path, op.method, op.operation))>>,
            <<"endpoint", camelCase(OpName(op.path, op.method, op.operation))>>>>])

\* C16: the output of a successful run begins with the header comment;
\* its other fragments are, in this order, the imports, one alias per
\* component schema in document order, one alias per component request
\* body in document order, the request runtime, and per operation in
\* document order of paths and methods its namespace directly followed by
\* its functions, so that the fragments of one operation precede those of
\* the next.
C16_FragmentOrder ==
  \A r \in 1..Len(runs) :
    Succeeded(r) =>
      LET statements == runs[r].statements
      IN /\ Len(statements) > 0
         /\ statements[1] = createInfoHeader(runs[r].document)
         /\ Shapes(SelectSeq(Tail(statements), IsNotComment)) = Layout(runs[r].document)
         /\ \A i \in 1..Len(statements) :
              statements[i].kind = "namespace" =>
                i < Len(statements) /\ statements[i + 1].kind = "endpoint"

\* A successful run on two schemas, two request bodies and two paths, the
\* first with post before get, and with a comment among the operations.
C16_Witness ==
  \E r \in 1..Len(runs) :
    /\ Succeeded(r)
    /\ Len(SchemaEntries(runs[r].document)) = 2
    /\ Len(RequestBodyEntries(runs[r].document)) = 2
    /\ Len(OperationsOf(runs[r].document)) = 4
    /\ OperationsOf(runs[r].document)[1].method = POST
    /\ OperationsOf(runs[r].document)[1].path = TagPath
    /\ \E i \in 4..Len(runs[r].statements) : runs[r].statements[i].kind = "comment"

(***************************************************************************)
(* Several generate calls in flight                                        *)
(***************************************************************************)
\* The runs that are past their synchronous part.
CompiledRuns == {r \in 1..Len(runs) : Emitted(r)}

\* The orders in which these runs can have compiled.
Orders ==
  {order \in [1..Cardinality(CompiledRuns) -> CompiledRuns] :
     \A i, j \in 1..Cardinality(CompiledRuns) : order[i] = order[j] => i = j}

\* Whether the compile phases of the runs order[i], order[i + 1], ...,
\* run one after another from the given module state, give each run the
\* outcome it has and leave the module state as it is now.
RECURSIVE InSequence(_, _, _, _, _, _)
InSequence(order, i, created, map, shown, lines) ==
  IF i > Len(order)
    THEN /\ created = createdTypeNames /\ map = refMap
         /\ shown = shownWarnings /\ lines = console
  ELSE \E result \in {Statements(runs[order[i]].document, None, created, map)} :
         /\ runs[order[i]].err = result.st.err
         /\ runs[order[i]].calls = result.st.calls
         /\ Succeeded(order[i]) <=> result.st.err = ""
         /\ Succeeded(order[i]) => runs[order[i]].statements = result.st.statements
         /\ \E warned \in {warn(result.st.warns, shown, lines)} :
              InSequence(order, i + 1, result.st.created, result.map,
                         warned.shown, warned.console)

Serializable == \E order \in Orders : InSequence(order, 1, {}, EmptyMap, {}, <<>>)

\* A step of run r between its validate call and its format call.
CompileStep(r) ==
  /\ runs[r].pc = "statements" /\ runs'[r].pc \in {"format", "thrown"}
  /\ \A q \in 1..Len(runs) : q # r => runs'[q] = runs[q]

\* Documents whose outcome depends on what compiled before them: Pet is
\* declared by two of them and referred to, undeclared, by a third, and
\* one has a keyword that is warned about once.
ConcurrentDocuments ==
  {PetDocument, DanglingDocument, SchemaOperationDocument, NoResponsesDocument,
   UnversionedDocument}

\* The host calls generate any number of times without awaiting the result.
NextConcurrent ==
  \/ \E openApiDocument \in ConcurrentDocuments : Generate(openApiDocument)
  \/ \E r \in 1..Len(runs) : PreProcess(r)
  \/ \E r \in 1..Len(runs) : Validate(r)
  \/ \E r \in 1..Len(runs) : Compile(r)
  \/ \E r \in 1..Len(runs) : Format(r)

SpecConcurrent == Init /\ [][NextConcurrent]_vars

\* C17: a run is suspended only before preProcess, validate and format
\* complete: the registry, the ref table, the warnings and a run's
\* fragments change only in the one step of one run that takes it from the
\* completion of validate to the format call, and the outcomes of the runs
\* and the module state are always those of running the compile phases of
\* the runs that have compiled one after another in some order.
C17_CompilePhasesSerial ==
  /\ []Serializable
  /\ [][/\ Len(runs') >= Len(runs)
        /\ (\/ createdTypeNames' # createdTypeNames \/ refMap' # refMap
            \/ shownWarnings' # shownWarnings \/ console' # console
            \/ \E r \in 1..Len(runs) : runs'[r].statements # runs[r].statements
                                       \/ runs'[r].calls # runs[r].calls)
             => \E r \in 1..Len(runs) : CompileStep(r)
       ]_vars

\* Two runs on the document that declares Pet were in flight together:
\* the one that compiled first succeeded, the other failed on the
\* duplicate, whichever was called first.
C17_Witness ==
  /\ Len(runs) >= 2
  /\ runs[1].input = PetDocument /\ runs[2].input = PetDocument
  /\ Aborted(1) /\ runs[1].err = "DuplicateTypeName"
  /\ Succeeded(2)

(***************************************************************************)
(* The functions of an output                                              *)
(***************************************************************************)
IsEndpoint(fragment) == fragment.kind = "endpoint"

\* The names of the functions the endpoint fragments declare, in order.
FunctionNames(statements) ==
  LET endpoints == SelectSeq(statements, IsEndpoint)
  IN Flatten([i \in 1..Len(endpoints) |->
               <<endpoints[i].callable.name, endpoints[i].hook.name>>])

\* C18: in a successful run the names of the functions declared by the
\* default endpoint generator, one callable and one hook per operation,
\* are pairwise distinct.
C18_FunctionNamesDistinct ==
  \A r \in 1..Len(runs) : Succeeded(r) => Distinct(FunctionNames(runs[r].statements))

\* What does hold: the callables are pairwise distinct among themselves
\* and so are the hooks, because the operations' type identifiers are.
C18_CallablesDistinct ==
  \A r \in 1..Len(runs) :
    Succeeded(r) =>
      LET endpoints == SelectSeq(runs[r].statements, IsEndpoint)
      IN /\ Distinct([i \in 1..Len(endpoints) |-> endpoints[i].callable.name])
         /\ Distinct([i \in 1..Len(endpoints) |-> endpoints[i].hook.name])

\* The run on the operations pet and usePet has succeeded: the hook of
\* the first and the callable of the second are both named usePet.
C18_Clash ==
  \E r \in 1..Len(runs) :
    /\ Succeeded(r)
    /\ runs[r].input = HookClashDocument
    /\ FunctionNames(runs[r].statements) =
         <<Name_pet, Name_usePet, Name_usePet, <<"u", "s", "e">> \o <<"U", "s", "e", "P", "e", "t">>>>

====
